---- MODULE Spec2Model ----
(***************************************************************************)
(* A model of the vecdb in-memory vector store                             *)
(* (server/app/database/db.py) and of its two index strategies             *)
(* (index/vector_index.py, index/lsh_index.py).                            *)
(*                                                                         *)
(* Chunk objects live in a heap and are referenced by address both from    *)
(* the document tree and from the index, as Python references are: an      *)
(* in-place update of a chunk is seen through every reference.             *)
(*                                                                         *)
(* Cosine similarities are compared exactly, as the rational number        *)
(* sign(q.e) * (q.e)^2 / (|q|^2 |e|^2); the float rounding of numpy is     *)
(* not modelled.  Embeddings are non-zero integer vectors.                 *)
(***************************************************************************)
EXTENDS Integers, Sequences, FiniteSets, TLC

\* ------------------------------------------------------------------ bounds
\* chunk-like objects (Chunk or ChunkCreate) ever allocated
MaxObjs == 2
\* documents ever created
MaxDocs == 1

\* ------------------------------------------------------- input domains
NoneVal == "<None>"
EmptyDict == [x \in {} |-> NoneVal]
LibIds == {"L1"}
Titles == {"T1"}
\* embeddings a caller sends for a chunk: two of the configured dimension
\* (they share a bucket in the second LSH table and not in the first) and
\* one of a wrong dimension
ChunkVecs == {<<1, 0>>, <<0, 1>>, <<1>>}
\* query vectors: the second one shares no LSH bucket with a chunk
QueryVecs == {<<1, 0>>, <<0 - 1, 0>>}
\* metadata a caller sends along with a chunk
ChunkMetas == {EmptyDict, [color |-> "red"]}
\* metadata_filter values of a SearchQuery (None and {} are both falsy)
Filters == {EmptyDict, [color |-> "red"], [color |-> NoneVal]}
\* values of k (SearchQuery.k is any int)
Ks == {0 - 1, 0, 1, 2}

\* --------------------------------------------------------- configuration
embedding_dimension == 2
\* LSHIndex.planes for dimension 2, n_planes 2, n_tables 2, random_seed 42:
\* the first eight values of numpy's randn after seed(42), times 10^4
\* (the row normalisation keeps the sign of every projection)
planes == << << <<4967, 0 - 1383>>, <<6477, 15230>> >>,
             << <<0 - 2342, 0 - 2341>>, <<15792, 7674>> >> >>
n_tables == Len(planes)

VARIABLES
    libraries,     \* _libraries: library_id -> Library
    indices,       \* _indices: library_id -> index
    heap,          \* chunk-like objects by address
    index_class,   \* _index_class: "lsh" or "vector"
    nextDocId,     \* number of the next Document id
    needs_save,    \* _needs_save
    call,          \* the last store call and its arguments
    ret,           \* what the last store call returned or raised
    lock,          \* _lock, the store's RLock: its owner and how often it holds it
    pc,            \* where each thread is in the store call it is running
    frame,         \* the call of each thread: arguments, loop state, result
    stable,        \* the store as it was when the lock was last free
    disk,          \* data_dir: the snapshot file and the temporary file next to it
    last_save,     \* _last_save
    now,           \* the clock, datetime.now()
    index_lock,    \* the _lock of the library's index: its owner and depth
    save_pc        \* where the save thread is in save_worker

vars == <<libraries, indices, heap, index_class, nextDocId, needs_save, call, ret,
          lock, pc, frame, stable, disk, last_save, now, index_lock, save_pc>>

\* ------------------------------------------------------------- dictionaries
\* dict.update / {**a, **b}
DictUpdate(a, b) ==
    [x \in (DOMAIN a) \cup (DOMAIN b) |-> IF x \in DOMAIN b THEN b[x] ELSE a[x]]

\* dict.get(key): None when the key is missing
DictGet(d, key) == IF key \in DOMAIN d THEN d[key] ELSE NoneVal

\* ------------------------------------------------------------------ vectors
RECURSIVE DotFrom(_, _, _)
DotFrom(a, b, i) ==
    IF i > Len(a) THEN 0 ELSE a[i] * b[i] + DotFrom(a, b, i + 1)

\* np.dot of two vectors of the same length
Dot(a, b) == DotFrom(a, b, 1)

\* ------------------------------------------------------------------ results
Return(v) == [status |-> "return", val |-> v]
Raise(e) == [status |-> "raise", val |-> e]

\* ------------------------------------------------------------------ indexes
\* a new, empty index of the given class (VectorIndex.__init__, LSHIndex.__init__)
NewIndex(cls) ==
    IF cls = "lsh"
    THEN [cls |-> "lsh", hash_tables |-> [t \in 1 .. n_tables |-> [x \in {} |-> <<>>]]]
    ELSE [cls |-> "vector", chunks |-> <<>>]

RECURSIVE HashBits(_, _, _)
HashBits(vector, pl, i) ==
    IF i > Len(pl) THEN ""
    ELSE (IF Dot(pl[i], vector) > 0 THEN "1" ELSE "0") \o HashBits(vector, pl, i + 1)

\* LSHIndex._hash_vector: one bit per plane, '1' when the projection is > 0.
\* Dividing the vector by its norm + 1e-10 keeps the sign of each projection.
\* np.dot raises ValueError when the vector is not of the planes' dimension.
HashRaises(vector) == Len(vector) # embedding_dimension
hash_vector(vector, pl) == HashBits(vector, pl, 1)

\* the bucket under a key of one hash table, empty when the key is missing
Bucket(table, key) == IF key \in DOMAIN table THEN table[key] ELSE <<>>

\* index.insert(chunk): the index afterwards, and whether insert raised
Insert(index, a, h) ==
    IF index.cls = "vector"
    THEN [index |-> [index EXCEPT !.chunks = Append(@, a)], raised |-> FALSE]
    ELSE IF HashRaises(h[a].embedding)
         THEN [index |-> index, raised |-> TRUE]
         ELSE [index |-> [index EXCEPT !.hash_tables =
                             [t \in 1 .. n_tables |->
                                 LET key == hash_vector(h[a].embedding, planes[t])
                                 IN  [x \in (DOMAIN @[t]) \cup {key} |->
                                         IF x = key THEN Append(Bucket(@[t], key), a)
                                         ELSE @[t][x]]]],
               raised |-> FALSE]

\* a faulty clear() that leaves the entries where they are
Clear_Kept(index) == index

\* index.clear()
Clear(index) == NewIndex(index.cls)

\* the loop of index_library: insert the chunks in order until one raises
RECURSIVE InsertAll(_, _, _)
InsertAll(index, as, h) ==
    IF as = <<>> THEN [index |-> index, raised |-> FALSE]
    ELSE LET r == Insert(index, Head(as), h)
         IN  IF r.raised THEN r ELSE InsertAll(r.index, Tail(as), h)

\* ------------------------------------------------------------------- search
\* one scored chunk: the cosine similarity of query and chunk is
\* sign(num) * sqrt(|num| / den), the distance is 1 minus that
Scored(query, a, h) ==
    LET dot == Dot(query, h[a].embedding)
    IN  [num |-> IF dot < 0 THEN 0 - (dot * dot) ELSE dot * dot,
         den |-> Dot(query, query) * Dot(h[a].embedding, h[a].embedding),
         chunk |-> a]

\* distance of e1 < distance of e2
DistLess(e1, e2) == e1.num * e2.den > e2.num * e1.den
DistEq(e1, e2) == e1.num * e2.den = e2.num * e1.den

\* list.sort() of (score, chunk) tuples compares the chunks of two tuples
\* whose scores are equal; the models define no ordering, so it raises
\* TypeError unless the two are == : a Chunk equals only itself (ids differ),
\* two ChunkCreate objects are equal when their fields are
SortRaises(es, h) ==
    \E i, j \in 1 .. Len(es) :
        LET a == es[i].chunk
            b == es[j].chunk
        IN  /\ i < j
            /\ DistEq(es[i], es[j])
            /\ a # b
            /\ ~(h[a].kind = "ChunkCreate" /\ h[b].kind = "ChunkCreate" /\ h[a] = h[b])

\* the stable sort by ascending distance (descending similarity): the last
\* entry e is put into the sorted rest s behind every entry that is not farther
RECURSIVE SortByDistance(_)
SortByDistance(es) ==
    IF es = <<>> THEN <<>>
    ELSE LET e == es[Len(es)]
             s == SortByDistance(SubSeq(es, 1, Len(es) - 1))
             before == {i \in 1 .. Len(s) : ~DistLess(e, s[i])}
             n == IF \A i \in 1 .. Len(s) : i \in before THEN Len(s)
                  ELSE (CHOOSE i \in 1 .. Len(s) :
                            i \notin before /\ \A j \in 1 .. (i - 1) : j \in before) - 1
         IN  SubSeq(s, 1, n) \o <<e>> \o SubSeq(s, n + 1, Len(s))

\* the Python slice s[:k]
Slice(s, k) ==
    IF k >= 0 THEN SubSeq(s, 1, IF k < Len(s) THEN k ELSE Len(s))
    ELSE SubSeq(s, 1, IF Len(s) + k > 0 THEN Len(s) + k ELSE 0)

\* VectorIndex.search
VectorSearch(index, query, k, h) ==
    IF index.chunks = <<>> THEN Return(<<>>)
    ELSE IF \E i \in 1 .. Len(index.chunks) : Len(h[index.chunks[i]].embedding) # Len(query)
    THEN Raise("ValueError")
    ELSE LET similarities == [i \in 1 .. Len(index.chunks) |-> Scored(query, index.chunks[i], h)]
         IN  IF SortRaises(similarities, h) THEN Raise("TypeError")
             ELSE Return(Slice(SortByDistance(similarities), k))

\* the buckets that match the query, table after table
RECURSIVE MatchingBuckets(_, _, _)
MatchingBuckets(index, query, t) ==
    IF t > n_tables THEN <<>>
    ELSE Bucket(index.hash_tables[t], hash_vector(query, planes[t]))
             \o MatchingBuckets(index, query, t + 1)

\* candidates_dict: one entry per chunk id, in the order of first insertion
RECURSIVE Dedup(_)
Dedup(as) ==
    IF as = <<>> THEN <<>>
    ELSE LET front == Dedup(SubSeq(as, 1, Len(as) - 1))
             a == as[Len(as)]
         IN  IF \E i \in 1 .. Len(front) : front[i] = a THEN front ELSE Append(front, a)

\* LSHIndex.search
LSHSearch(index, query, k, h) ==
    IF HashRaises(query) THEN Raise("ValueError")
    ELSE LET matched == MatchingBuckets(index, query, 1)
             candidates == Dedup(matched)
         IN  IF \E i \in 1 .. Len(matched) : h[matched[i]].kind = "ChunkCreate"
             THEN Raise("AttributeError")
             ELSE IF candidates = <<>> THEN Return(<<>>)
             ELSE IF \E i \in 1 .. Len(candidates) : Len(h[candidates[i]].embedding) # Len(query)
             THEN Raise("ValueError")
             ELSE LET distances == [i \in 1 .. Len(candidates) |-> Scored(query, candidates[i], h)]
                  IN  IF SortRaises(distances, h) THEN Raise("TypeError")
                      ELSE Return(Slice(SortByDistance(distances), k))

\* index.search(query, k)
IndexSearch(index, query, k, h) ==
    IF index.cls = "vector" THEN VectorSearch(index, query, k, h)
    ELSE LSHSearch(index, query, k, h)

\* -------------------------------------------------------------------- store
\* The store operations are written over a store value st (the fields of
\* VectorDatabase) and yield the store afterwards and the outcome of the
\* call, so that an operation that calls another one (add_document ->
\* add_chunk, update_chunk -> index_library) is one step.

\* None, for the operations that return a chunk
NoChunk == 0
\* the id of the n-th Document created
DocId(n) == "d" \o ToString(n)

Out(st, r) == [st |-> st, ret |-> r]

\* _mark_for_save
mark_for_save(st) == [st EXCEPT !.needs_save = TRUE]

RECURSIVE Concat(_)
Concat(ss) == IF ss = <<>> THEN <<>> ELSE Head(ss) \o Concat(Tail(ss))

\* the chunks reached by "for doc in library.documents: for chunk in doc.chunks"
TreeChunks(library) ==
    Concat([i \in 1 .. Len(library.documents) |-> library.documents[i].chunks])

\* position of the first document with the id, 0 when there is none
FindDoc(documents, document_id) ==
    IF \E i \in 1 .. Len(documents) : documents[i].id = document_id
    THEN CHOOSE i \in 1 .. Len(documents) :
             /\ documents[i].id = document_id
             /\ \A j \in 1 .. (i - 1) : documents[j].id # document_id
    ELSE 0

\* "for chunk in document.chunks: if chunk.id == chunk_id": the position of
\* the first hit (0 when there is none); reading .id of a ChunkCreate object
\* that comes before the hit raises AttributeError
FindChunk(chunks, chunk_id, h) ==
    LET stops == {i \in 1 .. Len(chunks) : h[chunks[i]].kind = "ChunkCreate" \/ chunks[i] = chunk_id}
        first == IF stops = {} THEN 0 ELSE CHOOSE i \in stops : \A j \in stops : i <= j
    IN  [pos |-> IF first # 0 /\ h[chunks[first]].kind = "Chunk" THEN first ELSE 0,
         raised |-> first # 0 /\ h[chunks[first]].kind = "ChunkCreate"]

\* a faulty pop that puts the elements behind position i in front
Pop_Rotated(s, i) == SubSeq(s, i + 1, Len(s)) \o SubSeq(s, 1, i - 1)

\* list.pop(i)
Pop(s, i) == SubSeq(s, 1, i - 1) \o SubSeq(s, i + 1, Len(s))

\* a faulty create_library that keeps the documents of a library that exists
create_library_KeepsDocuments(st, library_id, metadata) ==
    LET library == [library_id |-> library_id, metadata |-> metadata,
                    documents |-> IF library_id \in DOMAIN st.libraries
                                  THEN st.libraries[library_id].documents ELSE <<>>,
                    is_indexed |-> FALSE]
        libs == [x \in (DOMAIN st.libraries) \cup {library_id} |->
                     IF x = library_id THEN library ELSE st.libraries[x]]
        idxs == [x \in (DOMAIN st.indices) \cup {library_id} |->
                     IF x = library_id THEN NewIndex(st.index_class) ELSE st.indices[x]]
    IN  Out(mark_for_save([st EXCEPT !.libraries = libs, !.indices = idxs]), Return(library_id))

create_library(st, library_id, metadata) ==
    LET library == [library_id |-> library_id, metadata |-> metadata,
                    documents |-> <<>>, is_indexed |-> FALSE]
        libs == [x \in (DOMAIN st.libraries) \cup {library_id} |->
                     IF x = library_id THEN library ELSE st.libraries[x]]
        idxs == [x \in (DOMAIN st.indices) \cup {library_id} |->
                     IF x = library_id THEN NewIndex(st.index_class) ELSE st.indices[x]]
    IN  Out(mark_for_save([st EXCEPT !.libraries = libs, !.indices = idxs]), Return(library_id))

\* update_library: the library's id, or None when there is no such library
update_library(st, library_id, metadata) ==
    IF library_id \in DOMAIN st.libraries
    THEN Out(mark_for_save([st EXCEPT !.libraries[library_id].metadata = DictUpdate(@, metadata)]),
             Return(library_id))
    ELSE Out(st, Return(NoneVal))

\* a faulty delete_library that leaves the library's index in place
delete_library_KeepsIndex(st, library_id) ==
    IF library_id \in DOMAIN st.libraries
    THEN Out(mark_for_save([st EXCEPT !.libraries =
                 [x \in (DOMAIN st.libraries) \ {library_id} |-> st.libraries[x]]]),
             Return(TRUE))
    ELSE Out(st, Return(FALSE))

\* delete_library; "del self._indices[library_id]" raises KeyError when the
\* library has no index, after the library is gone
delete_library(st, library_id) ==
    IF library_id \in DOMAIN st.libraries
    THEN LET st1 == [st EXCEPT !.libraries =
                        [x \in (DOMAIN st.libraries) \ {library_id} |-> st.libraries[x]]]
         IN  IF library_id \notin DOMAIN st.indices THEN Out(st1, Raise("KeyError"))
             ELSE Out(mark_for_save([st1 EXCEPT !.indices =
                          [x \in (DOMAIN st.indices) \ {library_id} |-> st.indices[x]]]),
                      Return(TRUE))
    ELSE Out(st, Return(FALSE))

\* a faulty index_library that inserts without clearing the index first
index_library_NoClear(st, library_id) ==
    IF library_id \notin DOMAIN st.libraries THEN Out(st, Return(FALSE))
    ELSE IF library_id \notin DOMAIN st.indices THEN Out(st, Raise("KeyError"))
    ELSE LET library == st.libraries[library_id]
             r == InsertAll(st.indices[library_id], TreeChunks(library), st.heap)
         IN  IF r.raised
             THEN Out([st EXCEPT !.indices[library_id] = r.index], Raise("ValueError"))
             ELSE Out(mark_for_save([st EXCEPT !.indices[library_id] = r.index,
                                               !.libraries[library_id].is_indexed = TRUE]),
                      Return(TRUE))

\* a faulty index_library that sets the flag of every library
index_library_Every(st, library_id) ==
    IF library_id \notin DOMAIN st.libraries THEN Out(st, Return(FALSE))
    ELSE IF library_id \notin DOMAIN st.indices THEN Out(st, Raise("KeyError"))
    ELSE LET library == st.libraries[library_id]
             r == InsertAll(Clear(st.indices[library_id]), TreeChunks(library), st.heap)
         IN  IF r.raised
             THEN Out([st EXCEPT !.indices[library_id] = r.index], Raise("ValueError"))
             ELSE Out(mark_for_save([st EXCEPT !.indices[library_id] = r.index,
                                               !.libraries =
                                                   [m \in DOMAIN @ |->
                                                       [@[m] EXCEPT !.is_indexed = TRUE]]]),
                      Return(TRUE))

\* index_library; "self._indices[library_id]" raises KeyError when the
\* library has no index
index_library(st, library_id) ==
    IF library_id \notin DOMAIN st.libraries THEN Out(st, Return(FALSE))
    ELSE IF library_id \notin DOMAIN st.indices THEN Out(st, Raise("KeyError"))
    ELSE LET library == st.libraries[library_id]
             r == InsertAll(Clear(st.indices[library_id]), TreeChunks(library), st.heap)
         IN  IF r.raised
             THEN Out([st EXCEPT !.indices[library_id] = r.index], Raise("ValueError"))
             ELSE Out(mark_for_save([st EXCEPT !.indices[library_id] = r.index,
                                               !.libraries[library_id].is_indexed = TRUE]),
                      Return(TRUE))

\* the metadata filter of search: all(chunk.metadata.get(k) == v ...)
RECURSIVE FilterResults(_, _, _)
FilterResults(results, metadata_filter, h) ==
    IF results = <<>> THEN <<>>
    ELSE LET rest == FilterResults(Tail(results), metadata_filter, h)
             metadata == h[Head(results).chunk].metadata
         IN  IF \A key \in DOMAIN metadata_filter :
                    DictGet(metadata, key) = metadata_filter[key]
             THEN <<Head(results)>> \o rest ELSE rest

search(st, q) ==
    IF q.library_id \notin DOMAIN st.libraries \/ ~st.libraries[q.library_id].is_indexed
    THEN Out(st, Return(<<>>))
    ELSE IF q.library_id \notin DOMAIN st.indices THEN Out(st, Raise("KeyError"))
    ELSE LET results == IndexSearch(st.indices[q.library_id], q.embedding, q.k, st.heap)
         IN  IF results.status = "raise" THEN Out(st, results)
             ELSE IF DOMAIN q.metadata_filter # {}
                  THEN Out(st, Return(FilterResults(results.val, q.metadata_filter, st.heap)))
                  ELSE Out(st, results)

get_chunk_count(st, library_id) ==
    IF library_id \notin DOMAIN st.libraries THEN Out(st, Return(0))
    ELSE Out(st, Return(Len(TreeChunks(st.libraries[library_id]))))

\* add_chunk; cc is a ChunkCreate [library_id, document_id, embedding, metadata]
add_chunk(st, cc) ==
    LET l == cc.library_id
        pos == IF l \in DOMAIN st.libraries
               THEN FindDoc(st.libraries[l].documents, cc.document_id) ELSE 0
    IN  IF pos = 0 THEN Out(st, Return(NoChunk))
        ELSE LET document == st.libraries[l].documents[pos]
                 chunk_metadata ==
                     DictUpdate([document_id |-> document.id,
                                 document_title |-> document.document_title], cc.metadata)
                 a == Len(st.heap) + 1
                 chunk == [kind |-> "Chunk", embedding |-> cc.embedding,
                           metadata |-> chunk_metadata]
                 doc_metadata ==
                     IF "document_title" \notin DOMAIN document.metadata
                     THEN DictUpdate(document.metadata,
                                     [document_title |-> chunk_metadata.document_title])
                     ELSE document.metadata
                 st1 == [st EXCEPT !.heap = Append(@, chunk),
                                   !.libraries[l].documents[pos] =
                                       [document EXCEPT !.chunks = Append(@, a),
                                                        !.metadata = doc_metadata]]
             IN  IF st1.libraries[l].is_indexed /\ l \notin DOMAIN st1.indices
                 THEN Out(st1, Raise("KeyError"))
                 ELSE IF st1.libraries[l].is_indexed
                 THEN LET r == Insert(st1.indices[l], a, st1.heap)
                      IN  IF r.raised THEN Out(st1, Raise("ValueError"))
                          ELSE Out(mark_for_save([st1 EXCEPT !.indices[l] = r.index]), Return(a))
                 ELSE Out(st1, Return(a))

\* the loop of add_document over the initial chunks; an add_chunk that
\* raises ends it
RECURSIVE AddChunks(_, _, _, _)
AddChunks(st, library_id, document_id, chunks) ==
    IF chunks = <<>> THEN Out(st, Return(document_id))
    ELSE LET r == add_chunk(st, [library_id |-> library_id, document_id |-> document_id,
                                 embedding |-> Head(chunks).embedding,
                                 metadata |-> Head(chunks).metadata])
         IN  IF r.ret.status = "raise" THEN r
             ELSE AddChunks(r.st, library_id, document_id, Tail(chunks))

\* add_document; dc is a DocumentCreate [library_id, document_title, chunks, metadata]
add_document(st, dc) ==
    IF dc.library_id \notin DOMAIN st.libraries THEN Out(st, Return(NoneVal))
    ELSE LET title == IF dc.document_title # "" THEN dc.document_title
                      ELSE IF "document_title" \in DOMAIN dc.metadata
                           THEN dc.metadata["document_title"]
                           ELSE "Untitled"
             metadata == DictUpdate(dc.metadata, [document_title |-> title])
             document == [id |-> DocId(st.nextDocId), document_title |-> title,
                          metadata |-> metadata, chunks |-> <<>>]
             st1 == [st EXCEPT !.libraries[dc.library_id].documents = Append(@, document),
                               !.nextDocId = @ + 1]
             r == AddChunks(st1, dc.library_id, document.id, dc.chunks)
         IN  IF r.ret.status = "raise" THEN r ELSE Out(mark_for_save(r.st), r.ret)

\* the ChunkCreate objects of a DocumentUpdate, as they are put on the heap
RECURSIVE Addresses(_, _)
Addresses(from, n) == IF n = 0 THEN <<>> ELSE <<from>> \o Addresses(from + 1, n - 1)

\* update_document; du is a DocumentUpdate [library_id, document_id,
\* document_title (NoneVal when not sent), chunks ([some, items]), metadata].
\* The chunk list of the request replaces doc.chunks as it is: the document
\* then holds ChunkCreate objects, and the index is not touched.
update_document(st, du) ==
    LET l == du.library_id
        pos == IF l \in DOMAIN st.libraries
               THEN FindDoc(st.libraries[l].documents, du.document_id) ELSE 0
    IN  IF pos = 0 THEN Out(st, Return(NoneVal))
        ELSE LET doc == st.libraries[l].documents[pos]
                 title1 == IF du.document_title # NoneVal THEN du.document_title
                           ELSE doc.document_title
                 objs == [i \in 1 .. Len(du.chunks.items) |->
                             [kind |-> "ChunkCreate",
                              embedding |-> du.chunks.items[i].embedding,
                              metadata |-> du.chunks.items[i].metadata]]
                 chunks1 == IF du.chunks.some
                            THEN Addresses(Len(st.heap) + 1, Len(objs)) ELSE doc.chunks
                 heap1 == IF du.chunks.some THEN st.heap \o objs ELSE st.heap
                 title2 == IF "document_title" \in DOMAIN du.metadata
                           THEN du.metadata["document_title"] ELSE title1
             IN  Out(mark_for_save([st EXCEPT
                         !.heap = heap1,
                         !.libraries[l].documents[pos] =
                             [doc EXCEPT !.document_title = title2,
                                         !.chunks = chunks1,
                                         !.metadata = DictUpdate(@, du.metadata)]]),
                     Return(doc.id))

delete_document(st, library_id, document_id) ==
    LET pos == IF library_id \in DOMAIN st.libraries
               THEN FindDoc(st.libraries[library_id].documents, document_id) ELSE 0
    IN  IF pos = 0 THEN Out(st, Return(FALSE))
        ELSE Out(mark_for_save([st EXCEPT !.libraries[library_id].documents = Pop(@, pos)]),
                 Return(TRUE))

\* update_chunk; cu is a ChunkUpdate [library_id, document_id, chunk_id,
\* embedding (<<>> when not sent), metadata]
update_chunk(st, cu) ==
    LET l == cu.library_id
        dpos == IF l \in DOMAIN st.libraries
                THEN FindDoc(st.libraries[l].documents, cu.document_id) ELSE 0
    IN  IF dpos = 0 THEN Out(st, Return(NoChunk))
        ELSE LET f == FindChunk(st.libraries[l].documents[dpos].chunks, cu.chunk_id, st.heap)
             IN  IF f.raised THEN Out(st, Raise("AttributeError"))
                 ELSE IF f.pos = 0 THEN Out(st, Return(NoChunk))
                 ELSE LET a == st.libraries[l].documents[dpos].chunks[f.pos]
                          st1 == mark_for_save([st EXCEPT
                                     !.heap[a].embedding =
                                         IF cu.embedding # <<>> THEN cu.embedding ELSE @,
                                     !.heap[a].metadata = DictUpdate(@, cu.metadata)])
                      IN  IF st1.libraries[l].is_indexed
                          THEN LET r == index_library(st1, l)
                               IN  IF r.ret.status = "raise" THEN r ELSE Out(r.st, Return(a))
                          ELSE Out(st1, Return(a))

\* a faulty delete_chunk that pops the chunk and does not rebuild the index
delete_chunk_NoRebuild(st, library_id, document_id, chunk_id) ==
    LET dpos == IF library_id \in DOMAIN st.libraries
                THEN FindDoc(st.libraries[library_id].documents, document_id) ELSE 0
    IN  IF dpos = 0 THEN Out(st, Return(FALSE))
        ELSE LET f == FindChunk(st.libraries[library_id].documents[dpos].chunks,
                                chunk_id, st.heap)
             IN  IF f.raised THEN Out(st, Raise("AttributeError"))
                 ELSE IF f.pos = 0 THEN Out(st, Return(FALSE))
                 ELSE Out(mark_for_save([st EXCEPT
                              !.libraries[library_id].documents[dpos].chunks = Pop(@, f.pos)]),
                          Return(TRUE))

delete_chunk(st, library_id, document_id, chunk_id) ==
    LET dpos == IF library_id \in DOMAIN st.libraries
                THEN FindDoc(st.libraries[library_id].documents, document_id) ELSE 0
    IN  IF dpos = 0 THEN Out(st, Return(FALSE))
        ELSE LET f == FindChunk(st.libraries[library_id].documents[dpos].chunks,
                                chunk_id, st.heap)
             IN  IF f.raised THEN Out(st, Raise("AttributeError"))
                 ELSE IF f.pos = 0 THEN Out(st, Return(FALSE))
                 ELSE LET st1 == [st EXCEPT
                                     !.libraries[library_id].documents[dpos].chunks = Pop(@, f.pos)]
                      IN  IF st1.libraries[library_id].is_indexed
                          THEN LET r == index_library(st1, library_id)
                               IN  IF r.ret.status = "raise" THEN r
                                   ELSE Out(mark_for_save(r.st), Return(TRUE))
                          ELSE Out(mark_for_save(st1), Return(TRUE))

\* ------------------------------------------------------------ state machine
\* the store as the operations see it
Store ==
    [libraries |-> libraries, indices |-> indices, heap |-> heap,
     index_class |-> index_class, nextDocId |-> nextDocId, needs_save |-> needs_save]

\* an object nothing refers to is released; its address is not used again
Freed == [kind |-> "freed"]

\* the heap of a store once the chunk-like objects it does not refer to any
\* more, from a document or from an index, are released
Collect(st) ==
    LET Referenced ==
            {a \in 1 .. Len(st.heap) :
                \/ \E l \in DOMAIN st.libraries :
                       \E i \in 1 .. Len(TreeChunks(st.libraries[l])) :
                           TreeChunks(st.libraries[l])[i] = a
                \/ \E l \in DOMAIN st.indices :
                    \/ /\ st.indices[l].cls = "vector"
                       /\ \E i \in 1 .. Len(st.indices[l].chunks) :
                              st.indices[l].chunks[i] = a
                    \/ /\ st.indices[l].cls = "lsh"
                       /\ \E t \in 1 .. n_tables :
                              \E key \in DOMAIN st.indices[l].hash_tables[t] :
                                  \E i \in 1 .. Len(st.indices[l].hash_tables[t][key]) :
                                      st.indices[l].hash_tables[t][key][i] = a}
    IN  [a \in 1 .. Len(st.heap) |-> IF a \in Referenced THEN st.heap[a] ELSE Freed]

\* the store and the outcome of a call become the next state
Becomes(r, c) ==
    /\ libraries' = r.st.libraries
    /\ indices' = r.st.indices
    /\ heap' = Collect(r.st)
    /\ index_class' = r.st.index_class
    /\ nextDocId' = r.st.nextDocId
    /\ needs_save' = r.st.needs_save
    /\ call' = c
    /\ ret' = r.ret
    /\ UNCHANGED <<lock, pc, frame, stable, disk, last_save, now, index_lock, save_pc>>

\* ids a caller may name
DocIds == {DocId(n) : n \in 1 .. MaxDocs}
ChunkIds == 1 .. MaxObjs
\* a chunk as a caller sends it inside a DocumentCreate or DocumentUpdate
ChunkInputs == [embedding : ChunkVecs, metadata : ChunkMetas]
\* the chunk lists a DocumentCreate may carry: lo to hi of the chunks cs
ListsOf(cs, lo, hi) == UNION {[1 .. n -> cs] : n \in lo .. hi}
\* the chunks of a DocumentUpdate: None, or one of the lists
Optional(lists) ==
    {[some |-> FALSE, items |-> <<>>]} \cup {[some |-> TRUE, items |-> cs] : cs \in lists}

\* the request threads
Threads == {"t1", "t2"}
NoThread == "none"
IdleFrame == [op |-> "none", arg |-> EmptyDict, todo |-> <<>>, nested |-> FALSE,
              overlap |-> FALSE, result |-> Return(NoneVal)]
\* the part of the store a search reads
View(st) == [libraries |-> st.libraries, indices |-> st.indices, heap |-> st.heap]

\* VectorDatabase.__init__ with no snapshot and no embeddings file on disk:
\* an empty store of either index class, nobody holding the lock
Init ==
    /\ libraries = [x \in {} |-> NoneVal]
    /\ indices = [x \in {} |-> NoneVal]
    /\ heap = <<>>
    /\ index_class \in {"lsh", "vector"}
    /\ nextDocId = 1
    /\ needs_save = FALSE
    /\ call = [op |-> "init"]
    /\ ret = Return(NoneVal)
    /\ lock = [owner |-> NoThread, depth |-> 0]
    /\ pc = [t \in Threads |-> "idle"]
    /\ frame = [t \in Threads |-> IdleFrame]
    /\ stable = View(Store)
    /\ disk = [file |-> [kind |-> "none"], tmp |-> FALSE]
    /\ last_save = 0
    /\ now = 0
    /\ index_lock = [owner |-> NoThread, depth |-> 0]
    /\ save_pc = "sleep"

CreateLibrary(Ls) ==
    \E l \in Ls :
        Becomes(create_library(Store, l, EmptyDict), [op |-> "create_library", library_id |-> l])

DeleteLibrary(Ls) ==
    \E l \in Ls :
        Becomes(delete_library(Store, l), [op |-> "delete_library", library_id |-> l])

IndexLibrary(Ls) ==
    \E l \in Ls :
        Becomes(index_library(Store, l), [op |-> "index_library", library_id |-> l])

Search(Ls, Qs, Fs) ==
    \E l \in Ls, e \in Qs, k \in Ks, f \in Fs :
        LET q == [library_id |-> l, embedding |-> e, k |-> k, metadata_filter |-> f]
        IN  Becomes(search(Store, q), [op |-> "search", library_id |-> l, query |-> q])

GetChunkCount(Ls) ==
    \E l \in Ls :
        Becomes(get_chunk_count(Store, l), [op |-> "get_chunk_count", library_id |-> l])

AddDocument(Ls, Ts, Css) ==
    \E l \in Ls, t \in Ts, cs \in Css :
        /\ nextDocId <= MaxDocs
        /\ Len(heap) + Len(cs) <= MaxObjs
        /\ Becomes(add_document(Store, [library_id |-> l, document_title |-> t,
                                        chunks |-> cs, metadata |-> EmptyDict]),
                   [op |-> "add_document", library_id |-> l, document_id |-> DocId(nextDocId),
                    chunks |-> cs])

UpdateDocument(Ls, Ts, Css) ==
    \E l \in Ls, d \in DocIds, t \in Ts, cs \in Css :
        /\ Len(heap) + Len(cs.items) <= MaxObjs
        /\ Becomes(update_document(Store, [library_id |-> l, document_id |-> d,
                                           document_title |-> t, chunks |-> cs,
                                           metadata |-> EmptyDict]),
                   [op |-> "update_document", library_id |-> l, document_id |-> d])

DeleteDocument(Ls) ==
    \E l \in Ls, d \in DocIds :
        Becomes(delete_document(Store, l, d),
                [op |-> "delete_document", library_id |-> l, document_id |-> d])

AddChunk(Ls, Cs) ==
    \E l \in Ls, d \in DocIds, c \in Cs :
        /\ Len(heap) < MaxObjs
        /\ Becomes(add_chunk(Store, [library_id |-> l, document_id |-> d,
                                     embedding |-> c.embedding, metadata |-> c.metadata]),
                   [op |-> "add_chunk", library_id |-> l, document_id |-> d])

UpdateChunk(Ls, Es, Ms) ==
    \E l \in Ls, d \in DocIds, c \in ChunkIds, e \in Es, m \in Ms :
        Becomes(update_chunk(Store, [library_id |-> l, document_id |-> d, chunk_id |-> c,
                                     embedding |-> e, metadata |-> m]),
                [op |-> "update_chunk", library_id |-> l, document_id |-> d, chunk_id |-> c,
                 embedding |-> e])

DeleteChunk(Ls) ==
    \E l \in Ls, d \in DocIds, c \in ChunkIds :
        Becomes(delete_chunk(Store, l, d, c),
                [op |-> "delete_chunk", library_id |-> l, document_id |-> d, chunk_id |-> c])

\* the store under calls from one caller at a time, on one library
Next ==
    \/ CreateLibrary(LibIds)
    \/ DeleteLibrary(LibIds)
    \/ IndexLibrary(LibIds)
    \/ Search(LibIds, QueryVecs, Filters)
    \/ GetChunkCount(LibIds)
    \/ AddDocument(LibIds, Titles, ListsOf(ChunkInputs, 0, 2))
    \/ UpdateDocument(LibIds, {NoneVal}, Optional(ListsOf(ChunkInputs, 0, 1)))
    \/ DeleteDocument(LibIds)
    \/ AddChunk(LibIds, ChunkInputs)
    \/ UpdateChunk(LibIds, ChunkVecs \cup {<<>>}, ChunkMetas)
    \/ DeleteChunk(LibIds)

Spec == Init /\ [][Next]_vars

\* ------------------------------------------------------- request threads
\* The same store under calls from two threads.  A call takes the store
\* lock (with self._lock), runs its body and releases the lock on the way
\* out, by return or by exception.  The rebuild of index_library, alone or
\* inside delete_chunk and update_chunk, is taken apart into its steps:
\* clear, one insert per chunk, the setting of is_indexed.

\* a faulty lock that lets every thread in
CanAcquire_Always(t) == TRUE

\* a faulty lock that is not reentrant: its holder waits for it too
CanAcquire_NotReentrant(t) == lock.owner = NoThread

\* "with self._lock" on an RLock goes on when the lock is free or held by
\* the thread itself
CanAcquire(t) == lock.owner = NoThread \/ lock.owner = t

Acquired(t) == [owner |-> t, depth |-> lock.depth + 1]
\* a faulty lock that is free after one release, however often it was taken
Released_Whole == [owner |-> NoThread, depth |-> 0]

Released ==
    [owner |-> IF lock.depth <= 1 THEN NoThread ELSE lock.owner,
     depth |-> IF lock.depth = 0 THEN 0 ELSE lock.depth - 1]

\* inputs of the threads: t1 sends the calls that change documents and
\* chunks, t2 searches and rebuilds
ThreadCalls(t) ==
    IF t = "t1"
    THEN {[op |-> "create_library", arg |-> [library_id |-> l]] : l \in LibIds}
         \cup {[op |-> "add_document",
                arg |-> [library_id |-> l, document_title |-> "T1", chunks |-> cs,
                         metadata |-> EmptyDict]] :
                   l \in LibIds,
                   cs \in ListsOf([embedding : {<<1, 0>>, <<1>>}, metadata : {EmptyDict}], 1, 2)}
         \cup {[op |-> "delete_chunk",
                arg |-> [library_id |-> l, document_id |-> d, chunk_id |-> c]] :
                   l \in LibIds, d \in DocIds, c \in ChunkIds}
         \cup {[op |-> "update_chunk",
                arg |-> [library_id |-> l, document_id |-> d, chunk_id |-> c,
                         embedding |-> <<0, 1>>, metadata |-> EmptyDict]] :
                   l \in LibIds, d \in DocIds, c \in ChunkIds}
    ELSE {[op |-> "index_library", arg |-> [library_id |-> l]] : l \in LibIds}
         \cup {[op |-> "search",
                arg |-> [library_id |-> l, embedding |-> <<1, 0>>, k |-> 2,
                         metadata_filter |-> EmptyDict]] : l \in LibIds}

StoreUnchanged == UNCHANGED <<libraries, indices, heap, index_class, nextDocId, needs_save>>

\* a thread is handed a request and reaches "with self._lock"
TCall(t) ==
    \E c \in ThreadCalls(t) :
        /\ pc[t] = "idle"
        /\ c.op = "add_document" =>
               nextDocId <= MaxDocs /\ Len(heap) + Len(c.arg.chunks) <= MaxObjs
        /\ frame' = [frame EXCEPT ![t] = [IdleFrame EXCEPT !.op = c.op, !.arg = c.arg,
                                             !.overlap = (c.op = "search" /\ lock.owner # NoThread)]]
        /\ pc' = [pc EXCEPT ![t] = "waiting"]
        /\ StoreUnchanged
        /\ UNCHANGED <<call, ret, lock, stable, disk, last_save, now, index_lock, save_pc>>

\* the thread gets the lock and enters the body, at its first step
TAcquire(t) ==
    /\ pc[t] = "waiting"
    /\ CanAcquire(t)
    /\ lock' = Acquired(t)
    /\ pc' = [pc EXCEPT ![t] = CASE frame[t].op = "search" -> "search_body"
                                  [] frame[t].op = "index_library" -> "il_lookup"
                                  [] frame[t].op = "delete_chunk" -> "dc_pop"
                                  [] frame[t].op = "update_chunk" -> "uc_apply"
                                  [] OTHER -> "whole_body"]
    /\ StoreUnchanged
    /\ UNCHANGED <<call, ret, frame, stable, disk, last_save, now, index_lock, save_pc>>

\* search reads the library and its index
TSearchBody(t) ==
    /\ pc[t] = "search_body"
    /\ pc' = [pc EXCEPT ![t] = "release"]
    /\ frame' = [frame EXCEPT ![t].result = search(Store, frame[t].arg).ret]
    /\ StoreUnchanged
    /\ UNCHANGED <<call, ret, lock, stable, disk, last_save, now, save_pc>>

\* the body of create_library or add_document
TWholeBody(t) ==
    /\ pc[t] = "whole_body"
    /\ pc' = [pc EXCEPT ![t] = "release"]
    /\ LET r == IF frame[t].op = "create_library"
                THEN create_library(Store, frame[t].arg.library_id, EmptyDict)
                ELSE add_document(Store, frame[t].arg)
       IN  /\ libraries' = r.st.libraries
           /\ indices' = r.st.indices
           /\ heap' = r.st.heap
           /\ nextDocId' = r.st.nextDocId
           /\ needs_save' = r.st.needs_save
           /\ frame' = [frame EXCEPT ![t].result = r.ret]
    /\ UNCHANGED <<index_class, call, ret, lock, stable, disk, last_save, now, index_lock, save_pc>>

\* index_library looks the library up
TIndexLookup(t) ==
    /\ pc[t] = "il_lookup"
    /\ IF frame[t].arg.library_id \in DOMAIN libraries
       THEN /\ pc' = [pc EXCEPT ![t] = "il_clear"]
            /\ UNCHANGED frame
       ELSE /\ pc' = [pc EXCEPT ![t] = "il_exit"]
            /\ frame' = [frame EXCEPT ![t].result = Return(FALSE)]
    /\ StoreUnchanged
    /\ UNCHANGED <<call, ret, lock, stable, disk, last_save, now, index_lock, save_pc>>

\* index.clear(), and the loop over the chunks starts
TIndexClear(t) ==
    /\ pc[t] = "il_clear"
    /\ indices' = [indices EXCEPT ![frame[t].arg.library_id] = Clear(@)]
    /\ frame' = [frame EXCEPT ![t].todo = TreeChunks(libraries[frame[t].arg.library_id])]
    /\ pc' = [pc EXCEPT ![t] = "il_insert"]
    /\ UNCHANGED <<libraries, heap, index_class, nextDocId, needs_save, call, ret, lock, stable, disk, last_save, now, save_pc>>

\* index.insert(chunk) for the next chunk
TIndexInsert(t) ==
    /\ pc[t] = "il_insert"
    /\ frame[t].todo # <<>>
    /\ LET l == frame[t].arg.library_id
           r == Insert(indices[l], Head(frame[t].todo), heap)
       IN  IF r.raised
           THEN /\ frame' = [frame EXCEPT ![t].result = Raise("ValueError")]
                /\ pc' = [pc EXCEPT ![t] = "il_exit"]
                /\ UNCHANGED indices
           ELSE /\ indices' = [indices EXCEPT ![l] = r.index]
                /\ frame' = [frame EXCEPT ![t].todo = Tail(@)]
                /\ UNCHANGED pc
    /\ UNCHANGED <<libraries, heap, index_class, nextDocId, needs_save, call, ret, lock, stable, disk, last_save, now, save_pc>>

\* the loop is over: is_indexed = True, _mark_for_save, return True
TIndexFinish(t) ==
    /\ pc[t] = "il_insert"
    /\ frame[t].todo = <<>>
    /\ pc' = [pc EXCEPT ![t] = "il_exit"]
    /\ libraries' = [libraries EXCEPT ![frame[t].arg.library_id].is_indexed = TRUE]
    /\ needs_save' = TRUE
    /\ frame' = [frame EXCEPT ![t].result =
                     IF frame[t].nested THEN frame[t].result ELSE Return(TRUE)]
    /\ UNCHANGED <<indices, heap, index_class, nextDocId, call, ret, lock, stable, disk, last_save, now, index_lock, save_pc>>

\* index_library is left: a call of its own goes on to release the lock; a
\* call from delete_chunk or update_chunk gives up its hold of the lock and
\* the caller goes on, or is left too when index_library raised
TIndexExit(t) ==
    /\ pc[t] = "il_exit"
    /\ IF frame[t].nested
       THEN /\ lock' = Released
            /\ pc' = [pc EXCEPT ![t] =
                          IF frame[t].result.status = "raise" THEN "release" ELSE "chunk_finish"]
       ELSE /\ pc' = [pc EXCEPT ![t] = "release"]
            /\ UNCHANGED lock
    /\ StoreUnchanged
    /\ UNCHANGED <<call, ret, frame, stable, disk, last_save, now, index_lock, save_pc>>

\* delete_chunk finds the chunk and pops it
TDeleteChunkPop(t) ==
    /\ pc[t] = "dc_pop"
    /\ LET l == frame[t].arg.library_id
           dpos == IF l \in DOMAIN libraries
                   THEN FindDoc(libraries[l].documents, frame[t].arg.document_id) ELSE 0
           f == IF dpos = 0 THEN [pos |-> 0, raised |-> FALSE]
                ELSE FindChunk(libraries[l].documents[dpos].chunks, frame[t].arg.chunk_id, heap)
       IN  IF f.raised \/ f.pos = 0
           THEN /\ pc' = [pc EXCEPT ![t] = "release"]
                /\ frame' = [frame EXCEPT ![t].result =
                                 IF f.raised THEN Raise("AttributeError") ELSE Return(FALSE)]
                /\ UNCHANGED libraries
           ELSE /\ pc' = [pc EXCEPT ![t] =
                              IF libraries[l].is_indexed THEN "il_enter" ELSE "chunk_finish"]
                /\ libraries' = [libraries EXCEPT ![l].documents[dpos].chunks = Pop(@, f.pos)]
                /\ frame' = [frame EXCEPT ![t].result = Return(TRUE)]
    /\ UNCHANGED <<indices, heap, index_class, nextDocId, needs_save, call, ret, lock, stable, disk, last_save, now, index_lock, save_pc>>

\* update_chunk finds the chunk, changes it in place and marks the store
TUpdateChunkApply(t) ==
    /\ pc[t] = "uc_apply"
    /\ LET l == frame[t].arg.library_id
           dpos == IF l \in DOMAIN libraries
                   THEN FindDoc(libraries[l].documents, frame[t].arg.document_id) ELSE 0
           f == IF dpos = 0 THEN [pos |-> 0, raised |-> FALSE]
                ELSE FindChunk(libraries[l].documents[dpos].chunks, frame[t].arg.chunk_id, heap)
       IN  IF f.raised \/ f.pos = 0
           THEN /\ frame' = [frame EXCEPT ![t].result =
                                 IF f.raised THEN Raise("AttributeError") ELSE Return(NoChunk)]
                /\ pc' = [pc EXCEPT ![t] = "release"]
                /\ UNCHANGED <<heap, needs_save>>
           ELSE LET a == libraries[l].documents[dpos].chunks[f.pos]
                IN  /\ heap' = [heap EXCEPT
                                   ![a].embedding = IF frame[t].arg.embedding # <<>>
                                                    THEN frame[t].arg.embedding ELSE @,
                                   ![a].metadata = DictUpdate(@, frame[t].arg.metadata)]
                    /\ needs_save' = TRUE
                    /\ frame' = [frame EXCEPT ![t].result = Return(a)]
                    /\ pc' = [pc EXCEPT ![t] =
                                  IF libraries[l].is_indexed THEN "il_enter" ELSE "chunk_finish"]
    /\ UNCHANGED <<libraries, indices, index_class, nextDocId, call, ret, lock, stable, disk, last_save, now, index_lock, save_pc>>

\* delete_chunk or update_chunk calls index_library, which takes the lock again
TIndexEnter(t) ==
    /\ pc[t] = "il_enter"
    /\ CanAcquire(t)
    /\ lock' = Acquired(t)
    /\ frame' = [frame EXCEPT ![t].nested = TRUE]
    /\ pc' = [pc EXCEPT ![t] = "il_lookup"]
    /\ StoreUnchanged
    /\ UNCHANGED <<call, ret, stable, disk, last_save, now, index_lock, save_pc>>

\* the rest of delete_chunk (_mark_for_save, return True) or of update_chunk
\* (return chunk)
TChunkFinish(t) ==
    /\ pc[t] = "chunk_finish"
    /\ needs_save' = (needs_save \/ frame[t].op = "delete_chunk")
    /\ pc' = [pc EXCEPT ![t] = "release"]
    /\ UNCHANGED <<libraries, indices, heap, index_class, nextDocId, call, ret, lock, frame, stable, disk, last_save, now, index_lock, save_pc>>

\* the call leaves "with self._lock" and returns or raises frame[t].result
TRelease(t) ==
    /\ pc[t] = "release"
    /\ lock' = Released
    /\ pc' = [pc EXCEPT ![t] = "idle"]
    /\ frame' = [frame EXCEPT ![t] = IdleFrame]
    /\ stable' = IF lock'.depth = 0 THEN View(Store) ELSE stable
    /\ StoreUnchanged
    /\ UNCHANGED <<call, ret, disk, last_save, now, index_lock, save_pc>>

NextThreads ==
    \E t \in Threads :
        \/ TCall(t)
        \/ TAcquire(t)
        \/ TSearchBody(t) /\ UNCHANGED index_lock
        \/ TWholeBody(t)
        \/ TIndexLookup(t)
        \/ TIndexClear(t) /\ UNCHANGED index_lock
        \/ TIndexInsert(t) /\ UNCHANGED index_lock
        \/ TIndexFinish(t)
        \/ TIndexExit(t)
        \/ TDeleteChunkPop(t)
        \/ TUpdateChunkApply(t)
        \/ TIndexEnter(t)
        \/ TChunkFinish(t)
        \/ TRelease(t)

SpecThreads == Init /\ [][NextThreads]_vars

\* ------------------------------------------------------- caller metadata
\* The store under calls whose metadata names document_id and
\* document_title, on documents that are renamed.

\* metadata a caller sends along with a chunk
MetaChunkMetas == {EmptyDict, [document_id |-> "d9"], [document_title |-> "T2"]}
MetaChunks == [embedding : {<<1, 0>>}, metadata : MetaChunkMetas]
\* titles and metadata a caller sends for a document
MetaNewTitles == {NoneVal, "T3"}
MetaDocMetas == {EmptyDict, [document_title |-> "T2"], [author |-> "A1"]}

\* add_document with metadata
AddDocumentWith(Ls, Ts, Css, Ms) ==
    \E l \in Ls, t \in Ts, cs \in Css, m \in Ms :
        /\ nextDocId <= MaxDocs
        /\ Len(heap) + Len(cs) <= MaxObjs
        /\ Becomes(add_document(Store, [library_id |-> l, document_title |-> t,
                                        chunks |-> cs, metadata |-> m]),
                   [op |-> "add_document", library_id |-> l, document_id |-> DocId(nextDocId),
                    chunks |-> cs])

\* update_document with metadata
UpdateDocumentWith(Ls, Ts, Css, Ms) ==
    \E l \in Ls, d \in DocIds, t \in Ts, cs \in Css, m \in Ms :
        /\ Len(heap) + Len(cs.items) <= MaxObjs
        /\ Becomes(update_document(Store, [library_id |-> l, document_id |-> d,
                                           document_title |-> t, chunks |-> cs,
                                           metadata |-> m]),
                   [op |-> "update_document", library_id |-> l, document_id |-> d])

NextMeta ==
    \/ CreateLibrary(LibIds)
    \/ IndexLibrary(LibIds)
    \/ AddDocumentWith(LibIds, {"", "T1"}, ListsOf(MetaChunks, 0, 1), MetaDocMetas)
    \/ UpdateDocumentWith(LibIds, MetaNewTitles, Optional(ListsOf(MetaChunks, 1, 1)),
                          MetaDocMetas)
    \/ DeleteDocument(LibIds)
    \/ AddChunk(LibIds, MetaChunks)
    \/ UpdateChunk(LibIds, {<<>>}, MetaChunkMetas)
    \/ DeleteChunk(LibIds)

SpecMeta == Init /\ [][NextMeta]_vars

\* ---------------------------------------------------------------- snapshots
\* The store with its snapshot file: the background thread that saves it,
\* the clock that thread reads, and the start of a new process on the same
\* data_dir.

\* save_interval, in steps of the clock
save_interval == 1
\* the clock stops here
MaxTime == 2

\* the keys of db_state
SnapshotKeys == {"libraries", "embedding_dimension", "index_class", "index_kwargs"}

\* pickle.dump(db_state): the libraries with the objects their documents
\* reach, the index class; the indexes are not in it
Pickled(st) ==
    [kind |-> "state", keys |-> SnapshotKeys, libraries |-> st.libraries,
     heap |-> [a \in 1 .. Len(st.heap) |->
                  IF \E l \in DOMAIN st.libraries :
                         \E i \in 1 .. Len(TreeChunks(st.libraries[l])) :
                             TreeChunks(st.libraries[l])[i] = a
                  THEN st.heap[a] ELSE Freed],
     index_class |-> st.index_class]

\* how far save_to_disk gets: all the way, or open() of the temporary file
\* raises, or pickle.dump raises, or the rename raises
SaveOutcomes == {"ok", "open_raises", "dump_raises", "rename_raises"}

\* save_to_disk at time t.  When it raises, the temporary file exists unless
\* open() raised, the handler removes it if it exists, and the snapshot
\* file is as it was.
save_to_disk(st, ls, d, t, outcome) ==
    IF outcome = "ok"
    THEN [st |-> [st EXCEPT !.needs_save = FALSE], last_save |-> t,
          disk |-> [file |-> Pickled(st), tmp |-> FALSE], ret |-> Return(TRUE)]
    ELSE LET written == [d EXCEPT !.tmp = (outcome # "open_raises") \/ d.tmp]
         IN  [st |-> st, last_save |-> ls,
              disk |-> [written EXCEPT !.tmp = IF written.tmp THEN FALSE ELSE @],
              ret |-> Return(FALSE)]

\* a faulty save_worker that does not wait for save_interval
save_worker_NoInterval(st, ls, d, t, outcome) ==
    IF st.needs_save
    THEN LET r == save_to_disk(st, ls, d, t, outcome)
         IN  [st |-> [r.st EXCEPT !.needs_save = FALSE], last_save |-> t, disk |-> r.disk,
              attempt |-> IF r.ret.val THEN "ok" ELSE "failed"]
    ELSE [st |-> st, last_save |-> ls, disk |-> d, attempt |-> "none"]

\* one round of save_worker after its sleep, at time t: what it leaves, and
\* whether it called save_to_disk and how that went
save_worker(st, ls, d, t, outcome) ==
    IF st.needs_save /\ t - ls >= save_interval
    THEN LET r == save_to_disk(st, ls, d, t, outcome)
         IN  [st |-> [r.st EXCEPT !.needs_save = FALSE], last_save |-> t, disk |-> r.disk,
              attempt |-> IF r.ret.val THEN "ok" ELSE "failed"]
    ELSE [st |-> st, last_save |-> ls, disk |-> d, attempt |-> "none"]

\* the objects of a loaded snapshot, in a heap of n addresses
PadHeap(h, n) == [a \in 1 .. n |-> IF a <= Len(h) THEN h[a] ELSE Freed]

\* "for lib_id in self._libraries: self.index_library(lib_id)", until one raises
RECURSIVE IndexAll(_, _)
IndexAll(st, ids) ==
    IF ids = {} THEN Out(st, Return(TRUE))
    ELSE LET l == CHOOSE x \in ids : TRUE
             r == index_library(st, l)
         IN  IF r.ret.status = "raise" THEN r ELSE IndexAll(r.st, ids \ {l})

\* a faulty _load_from_disk that makes the indexes and does not fill them
load_from_disk_NoReindex(st, d) ==
    IF d.file.kind # "state" THEN Out(st, Return(FALSE))
    ELSE IF d.file.keys # SnapshotKeys THEN Out(st, Return(FALSE))
    ELSE Out([st EXCEPT !.libraries = d.file.libraries,
                        !.heap = PadHeap(d.file.heap, Len(st.heap)),
                        !.index_class = d.file.index_class,
                        !.indices = [l \in DOMAIN d.file.libraries |->
                                        NewIndex(d.file.index_class)]],
             Return(TRUE))

\* _load_from_disk: the fields of db_state are taken one after the other,
\* and whatever raises on the way ends the load with False and leaves what
\* was assigned before
load_from_disk(st, d) ==
    IF d.file.kind # "state" THEN Out(st, Return(FALSE))
    ELSE IF "libraries" \notin d.file.keys THEN Out(st, Return(FALSE))
    ELSE LET st1 == [st EXCEPT !.libraries = d.file.libraries,
                               !.heap = PadHeap(d.file.heap, Len(st.heap))]
         IN  IF "embedding_dimension" \notin d.file.keys \/ "index_class" \notin d.file.keys
             THEN Out(st1, Return(FALSE))
             ELSE LET st2 == [st1 EXCEPT !.index_class = d.file.index_class]
                  IN  IF "index_kwargs" \notin d.file.keys THEN Out(st2, Return(FALSE))
                      ELSE LET st3 == [st2 EXCEPT !.indices =
                                          [l \in DOMAIN st2.libraries |->
                                              NewIndex(st2.index_class)]]
                               r == IndexAll(st3, DOMAIN st3.libraries)
                           IN  Out(r.st, Return(r.ret.status = "return"))

\* VectorDatabase.__init__ of a new process on the data_dir: an empty store
\* of the class the caller names, then _load_from_disk; there is no
\* embeddings file.  Ids are not used again: the ones given out so far are
\* those of the store before.
VectorDatabase(before, cls, d) ==
    load_from_disk([libraries |-> [x \in {} |-> NoneVal], indices |-> [x \in {} |-> NoneVal],
                    heap |-> [a \in 1 .. Len(before.heap) |-> Freed], index_class |-> cls,
                    nextDocId |-> before.nextDocId, needs_save |-> FALSE], d)


UpdateLibrary(Ls, Ms) ==
    \E l \in Ls, m \in Ms :
        Becomes(update_library(Store, l, m), [op |-> "update_library", library_id |-> l])

\* the save thread wakes up, takes the lock and looks whether a snapshot is due
SaveWorkerWith(outcomes) ==
    \E outcome \in outcomes :
        LET r == save_worker(Store, last_save, disk, now, outcome)
        IN  /\ needs_save' = r.st.needs_save
            /\ last_save' = r.last_save
            /\ disk' = r.disk
            /\ call' = [op |-> "save_worker", attempt |-> r.attempt]
            /\ ret' = Return(NoneVal)
            /\ UNCHANGED <<libraries, indices, heap, index_class, nextDocId,
                           lock, pc, frame, stable, now, index_lock, save_pc>>

SaveWorker == SaveWorkerWith(SaveOutcomes)

\* time passes
Pass ==
    /\ now < MaxTime
    /\ now' = now + 1
    /\ UNCHANGED <<libraries, indices, heap, index_class, nextDocId, needs_save, call, ret,
                   lock, pc, frame, stable, disk, last_save, index_lock, save_pc>>

\* the store, the save thread and the clock
NextSnapshot ==
    \/ CreateLibrary(LibIds)
    \/ UpdateLibrary(LibIds, {[owner |-> "o1"]})
    \/ DeleteLibrary(LibIds)
    \/ IndexLibrary(LibIds)
    \/ AddDocument(LibIds, Titles, {<<>>})
    \/ UpdateDocument(LibIds, {NoneVal}, {[some |-> FALSE, items |-> <<>>]})
    \/ DeleteDocument(LibIds)
    \/ AddChunk(LibIds, [embedding : {<<1, 0>>}, metadata : {EmptyDict}])
    \/ UpdateChunk(LibIds, {<<>>}, {[color |-> "red"]})
    \/ DeleteChunk(LibIds)
    \/ SaveWorker
    \/ Pass

SpecSnapshot == Init /\ [][NextSnapshot]_vars

\* ------------------------------------------------------------------ reload
\* The store, snapshots a caller asks for, and new processes that load them.

\* chunks of the right and of a wrong dimension
ReloadChunks == [embedding : {<<1, 0>>, <<1>>}, metadata : {EmptyDict}]

\* a call of save_to_disk
SaveToDisk ==
    \E outcome \in SaveOutcomes :
        LET r == save_to_disk(Store, last_save, disk, now, outcome)
        IN  /\ needs_save' = r.st.needs_save
            /\ last_save' = r.last_save
            /\ disk' = r.disk
            /\ call' = [op |-> "save_to_disk"]
            /\ ret' = r.ret
            /\ UNCHANGED <<libraries, indices, heap, index_class, nextDocId,
                           lock, pc, frame, stable, now, index_lock, save_pc>>

\* the process ends and a new one starts on the same data_dir
Restart ==
    \E cls \in {"lsh", "vector"} :
        LET r == VectorDatabase(Store, cls, disk)
        IN  /\ libraries' = r.st.libraries
            /\ indices' = r.st.indices
            /\ heap' = Collect(r.st)
            /\ index_class' = r.st.index_class
            /\ nextDocId' = r.st.nextDocId
            /\ needs_save' = r.st.needs_save
            /\ last_save' = now
            /\ call' = [op |-> "load_from_disk", index_class |-> cls]
            /\ ret' = r.ret
            /\ UNCHANGED <<lock, pc, frame, stable, disk, now, index_lock, save_pc>>

\* the snapshot file is damaged: it cannot be read any more, or one key of
\* db_state is missing
Damage ==
    /\ disk.file.kind = "state"
    /\ disk.file.keys = SnapshotKeys
    /\ \/ disk' = [disk EXCEPT !.file = [kind |-> "garbage"]]
       \/ \E key \in SnapshotKeys : disk' = [disk EXCEPT !.file.keys = @ \ {key}]
    /\ UNCHANGED <<libraries, indices, heap, index_class, nextDocId, needs_save, call, ret,
                   lock, pc, frame, stable, last_save, now, index_lock, save_pc>>

NextReload ==
    \/ CreateLibrary(LibIds)
    \/ IndexLibrary(LibIds)
    \/ AddDocument(LibIds, Titles, ListsOf(ReloadChunks, 0, 1))
    \/ DeleteDocument(LibIds)
    \/ AddChunk(LibIds, ReloadChunks)
    \/ SaveToDisk
    \/ Restart
    \/ Damage

SpecReload == Init /\ [][NextReload]_vars

\* ------------------------------------------------- vocabulary of the claims
\* the tables of an index: the hash tables of an LSH index, the one list of
\* an exact index
Tables(index) == IF index.cls = "vector" THEN {1} ELSE 1 .. n_tables

\* the places of table t of an index where a chunk is held
Slots(index, t) ==
    IF index.cls = "vector" THEN {<<"", i>> : i \in 1 .. Len(index.chunks)}
    ELSE UNION {{<<key, i>> : i \in 1 .. Len(index.hash_tables[t][key])} :
                    key \in DOMAIN index.hash_tables[t]}

SlotChunk(index, t, slot) ==
    IF index.cls = "vector" THEN index.chunks[slot[2]]
    ELSE index.hash_tables[t][slot[1]][slot[2]]

\* how often table t of the index holds chunk a
EntryCount(index, t, a) ==
    Cardinality({slot \in Slots(index, t) : SlotChunk(index, t, slot) = a})

\* how often chunk a is reached through the documents of the library
TreeCount(library, a) ==
    Cardinality({i \in 1 .. Len(TreeChunks(library)) : TreeChunks(library)[i] = a})

\* the index of library l holds, in every table, the chunks of the
\* library's documents, each as often as the documents do
InSync(l) ==
    \A a \in 1 .. Len(heap) : \A t \in Tables(indices[l]) :
        EntryCount(indices[l], t, a) = TreeCount(libraries[l], a)

Indexed(l) == l \in DOMAIN libraries /\ libraries[l].is_indexed

\* the results are in non-decreasing distance
Ascending(results) ==
    \A i, j \in 1 .. Len(results) : i < j => ~DistLess(results[j], results[i])

\* the metadata holds every key of the filter with an equal value
HoldsAll(metadata, metadata_filter) ==
    \A key \in DOMAIN metadata_filter :
        key \in DOMAIN metadata /\ metadata[key] = metadata_filter[key]

\* the subsequence of the results whose chunk metadata holds the filter
RECURSIVE Holding(_, _)
Holding(results, metadata_filter) ==
    IF results = <<>> THEN <<>>
    ELSE (IF HoldsAll(heap[Head(results).chunk].metadata, metadata_filter)
          THEN <<Head(results)>> ELSE <<>>) \o Holding(Tail(results), metadata_filter)

\* ------------------------------------------------------------------- claims

\* C1: for every library whose is_indexed flag is true, the chunks held by
\* the library's index are, as a multiset, the chunks reachable through the
\* library's documents.
C1_IndexedInSync == \A l \in DOMAIN libraries : libraries[l].is_indexed => InSync(l)

\* C2: when delete_document returns true for a document of an indexed
\* library, none of that document's chunks is left in the library's index.
C2_DeleteDocumentUnindexes ==
    [][\A l \in LibIds, d \in DocIds :
          (/\ Indexed(l)
           /\ call'.op = "delete_document"
           /\ call'.library_id = l /\ call'.document_id = d
           /\ ret'.status = "return" /\ ret'.val = TRUE)
          => LET pos == FindDoc(libraries[l].documents, d)
                 gone == libraries[l].documents[pos].chunks
             IN  \A i \in 1 .. Len(gone) : \A t \in Tables(indices'[l]) :
                     EntryCount(indices'[l], t, gone[i]) = 0]_vars

\* a search has run its body and not yet returned
SearchRead(t) == pc[t] = "release" /\ frame[t].op = "search"

\* C3: what a search returns is computed from the store as it was between
\* two operations of the other threads (the state the last finished
\* operation left, which is the state before any operation still to come),
\* never from an index that a rebuild has cleared and not yet refilled.
C3_SearchNotTorn ==
    \A t \in Threads :
        SearchRead(t) =>
            /\ frame[t].result = search(stable, frame[t].arg).ret
            /\ \A u \in Threads \ {t} : pc[u] \in {"idle", "waiting"}

\* C3 witness: a search that was called while another thread held the lock
\* has found chunks
C3_Witness ==
    \E t \in Threads :
        /\ SearchRead(t)
        /\ frame[t].overlap
        /\ frame[t].result.status = "return" /\ frame[t].result.val # <<>>

\* C4: the sequence a search returns is in non-decreasing distance and is
\* not longer than k.
C4_SortedAtMostK ==
    (call.op = "search" /\ ret.status = "return")
        => Ascending(ret.val) /\ Len(ret.val) <= call.query.k

\* C5: search returns the empty sequence, without raising, when the library
\* does not exist, is not indexed, or is indexed and holds no chunks.
C5_EmptySearch ==
    (/\ call.op = "search"
     /\ \/ call.library_id \notin DOMAIN libraries
        \/ ~libraries[call.library_id].is_indexed
        \/ TreeChunks(libraries[call.library_id]) = <<>>)
        => ret = Return(<<>>)

\* C6: a search that returns gives, under a non-empty metadata_filter, the
\* index's k nearest in their order restricted to the chunks whose metadata
\* holds every filter key with an equal value, and under an empty filter
\* the index's k nearest unchanged.
C6_FilterAfterKnn ==
    (call.op = "search" /\ ret.status = "return" /\ Indexed(call.library_id))
        => LET q == call.query
               nearest == IndexSearch(indices[q.library_id], q.embedding, q.k, heap)
           IN  /\ nearest.status = "return"
               /\ ret.val = IF DOMAIN q.metadata_filter # {}
                            THEN Holding(nearest.val, q.metadata_filter)
                            ELSE nearest.val

\* library l refers to chunk a, from a document or from its index
Held(l, a) ==
    /\ l \in DOMAIN libraries
    /\ \/ TreeCount(libraries[l], a) > 0
       \/ \E t \in Tables(indices[l]) : EntryCount(indices[l], t, a) > 0

\* the number of chunks table t of the index holds
IndexSize(index, t) == Cardinality(Slots(index, t))

\* the state in which delete_chunk has returned true on an indexed library
DeleteChunkDone ==
    /\ call.op = "delete_chunk"
    /\ ret.status = "return" /\ ret.val = TRUE
    /\ Indexed(call.library_id)

C7_After ==
    DeleteChunkDone
        => LET l == call.library_id
           IN  /\ InSync(l)
               /\ ~Held(l, call.chunk_id)
               /\ \A t \in Tables(indices[l]) :
                      IndexSize(indices[l], t) = get_chunk_count(Store, l).ret.val

\* every chunk a search returns is held by the index of the library searched
SearchFromIndex ==
    (call.op = "search" /\ ret.status = "return")
        => \A i \in 1 .. Len(ret.val) :
               \E t \in Tables(indices[call.library_id]) :
                   EntryCount(indices[call.library_id], t, ret.val[i].chunk) > 0

\* C7: when delete_chunk has returned true on an indexed library, the index
\* is the rebuilt one: it holds the library's chunks and not the deleted
\* one, its size is get_chunk_count; and a chunk a library no longer holds
\* never comes back into its index, from which every search result is taken.
C7_DeleteChunkRebuilds ==
    [][/\ C7_After'
       /\ SearchFromIndex'
       /\ \A l \in LibIds : \A a \in 1 .. Len(heap) : ~Held(l, a) => ~Held(l, a)']_vars

\* C7 witness: delete_chunk returned true on an indexed library that still
\* holds a chunk
C7_Witness == DeleteChunkDone /\ TreeChunks(libraries[call.library_id]) # <<>>

\* the state in which update_chunk has returned the chunk, on an indexed library
UpdateChunkDone ==
    /\ call.op = "update_chunk"
    /\ ret.status = "return" /\ ret.val # NoChunk
    /\ Indexed(call.library_id)

\* C8: when update_chunk has succeeded on an indexed library, the index
\* holds exactly the library's current chunks, and the updated chunk, with
\* its new embedding, is filed once per table, under the hash of that
\* embedding.
C8_UpdateChunkRefiles ==
    UpdateChunkDone
        => LET l == call.library_id
               a == ret.val
           IN  /\ InSync(l)
               /\ TreeCount(libraries[l], a) = 1
               /\ call.embedding # <<>> => heap[a].embedding = call.embedding
               /\ indices[l].cls = "lsh" =>
                      \A t \in 1 .. n_tables : \A slot \in Slots(indices[l], t) :
                          SlotChunk(indices[l], t, slot) = a
                              => slot[1] = hash_vector(heap[a].embedding, planes[t])

\* C8 witness: update_chunk gave a chunk of an indexed LSH library, next to
\* another chunk, a new embedding
C8_Witness ==
    /\ UpdateChunkDone
    /\ indices[call.library_id].cls = "lsh"
    /\ call.embedding = <<0, 1>>
    /\ Len(TreeChunks(libraries[call.library_id])) = 2

\* C9: add_chunk, and add_document for each initial chunk, appends the new
\* chunk to the document and puts it into the library's index exactly once
\* if the library is indexed, and leaves the index alone if it is not.
C9_AddInsertsIffIndexed ==
    [][\A l \in LibIds :
          (/\ call'.op \in {"add_chunk", "add_document"}
           /\ call'.library_id = l
           /\ l \in DOMAIN libraries
           /\ call'.op = "add_chunk" => FindDoc(libraries[l].documents, call'.document_id) # 0)
          => LET n == IF call'.op = "add_chunk" THEN 1 ELSE Len(call'.chunks)
                 new == Addresses(Len(heap) + 1, n)
                 pos == FindDoc(libraries'[l].documents, call'.document_id)
                 old == IF call'.op = "add_chunk"
                        THEN libraries[l].documents[pos].chunks ELSE <<>>
             IN  /\ pos # 0
                 /\ libraries'[l].documents[pos].chunks = old \o new
                 /\ IF libraries[l].is_indexed
                    THEN \A a \in 1 .. Len(heap') : \A t \in Tables(indices'[l]) :
                             EntryCount(indices'[l], t, a) =
                                 EntryCount(indices[l], t, a)
                                     + (IF a > Len(heap) THEN 1 ELSE 0)
                    ELSE indices'[l] = indices[l]]_vars

\* C10: index_library returns false and changes nothing when the library
\* does not exist; otherwise it returns true, the library is indexed and its
\* index holds one entry for every chunk reachable through its documents.
C10_IndexLibrary ==
    [][\A l \in LibIds :
          (call'.op = "index_library" /\ call'.library_id = l)
          => IF l \in DOMAIN libraries
             THEN /\ ret'.status = "return" /\ ret'.val = TRUE
                  /\ libraries'[l].is_indexed
                  /\ InSync(l)'
                  /\ libraries' = [libraries EXCEPT ![l].is_indexed = TRUE]
             ELSE /\ ret'.status = "return" /\ ret'.val = FALSE
                  /\ UNCHANGED <<libraries, indices, heap, needs_save>>]_vars

\* every query a caller may send
Queries ==
    [library_id : LibIds, embedding : QueryVecs, k : Ks, metadata_filter : Filters]

\* two outcomes of a call are the same outcome
SameOutcome(r1, r2) == r1.status = r2.status /\ r1.val = r2.val

\* C11: index_library is idempotent.  In the state a call of index_library
\* has left, one more call of it (and so, by induction, any number of them)
\* has the same outcome, leaves the same index contents and the same
\* library, and every query has the same search result as after the one
\* call; after a call that returned true the index holds each chunk of the
\* library once.
C11_IndexLibraryIdempotent ==
    call.op = "index_library" =>
        LET again == index_library(Store, call.library_id)
        IN  /\ SameOutcome(again.ret, ret)
            /\ again.st.indices = indices
            /\ again.st.libraries = libraries
            /\ \A q \in Queries : SameOutcome(search(again.st, q).ret, search(Store, q).ret)
            /\ (ret.status = "return" /\ ret.val) => InSync(call.library_id)

\* index_library has returned true on a library of two chunks
C11_Witness ==
    /\ call.op = "index_library"
    /\ ret.status = "return"
    /\ ret.val
    /\ Len(TreeChunks(libraries[call.library_id])) = 2
    /\ \E q \in Queries : LET r == search(Store, q).ret
                           IN  r.status = "return" /\ Len(r.val) = 2

\* the document of library l with the id, when FindDoc finds one
DocOf(l, document_id) == libraries[l].documents[FindDoc(libraries[l].documents, document_id)]

\* the metadata of chunk a names the document as its owner
NamesOwner(a, doc) ==
    /\ "document_id" \in DOMAIN heap[a].metadata
    /\ heap[a].metadata["document_id"] = doc.id
    /\ "document_title" \in DOMAIN heap[a].metadata
    /\ heap[a].metadata["document_title"] = doc.document_title

\* C12: a chunk that add_chunk has just created, or that add_document has
\* just created from its initial chunks, has metadata whose document_id is
\* the id of the owning document and whose document_title is the owning
\* document's title, whatever the caller sent for those two keys.
C12_ChunkNamesOwner ==
    /\ (call.op = "add_chunk" /\ ret.status = "return" /\ ret.val # NoChunk) =>
           NamesOwner(ret.val, DocOf(call.library_id, call.document_id))
    /\ (call.op = "add_document" /\ ret.status = "return" /\ ret.val # NoneVal) =>
           LET doc == DocOf(call.library_id, ret.val)
           IN  \A i \in 1 .. Len(doc.chunks) : NamesOwner(doc.chunks[i], doc)

\* C13: in every state a store operation has left, the metadata of every
\* chunk of every document names that document's id and title.
C13_ChunksNameOwner ==
    \A l \in DOMAIN libraries : \A d \in 1 .. Len(libraries[l].documents) :
        \A i \in 1 .. Len(libraries[l].documents[d].chunks) :
            NamesOwner(libraries[l].documents[d].chunks[i], libraries[l].documents[d])

\* C14: in every reachable state the metadata of every document has a
\* document_title entry that equals the document's document_title field.
C14_TitleMirrored ==
    \A l \in DOMAIN libraries : \A d \in 1 .. Len(libraries[l].documents) :
        LET doc == libraries[l].documents[d]
        IN  /\ "document_title" \in DOMAIN doc.metadata
            /\ doc.metadata["document_title"] = doc.document_title

\* the store operations that change the store
Mutating ==
    {"create_library", "update_library", "delete_library", "index_library", "add_document",
     "update_document", "delete_document", "add_chunk", "update_chunk", "delete_chunk"}

\* the last call did what it was asked to
Succeeded ==
    /\ ret.status = "return"
    /\ CASE call.op \in {"update_library", "add_document", "update_document"} -> ret.val # NoneVal
         [] call.op \in {"delete_library", "index_library", "delete_document", "delete_chunk"} ->
                ret.val
         [] call.op \in {"add_chunk", "update_chunk"} -> ret.val # NoChunk
         [] OTHER -> TRUE

\* C15: when a mutating store operation has returned with success, the
\* store's needs_save flag is true, whether the library is indexed or not.
C15_MutationMarksDirty == (call.op \in Mutating /\ Succeeded) => needs_save

\* a snapshot is due: needs_save, and save_interval has passed since last_save
Due == needs_save /\ now - last_save >= save_interval

\* this step is a round of the save thread
Round == call'.op = "save_worker" /\ now' = now

\* C16: a round of the save thread calls save_to_disk exactly when, as it
\* finds the store, needs_save is true and at least save_interval has passed
\* since last_save; when the snapshot is written, the file holds the store,
\* needs_save is false and last_save is the time of the round; a round on
\* which one of the two conditions is false leaves the files, needs_save and
\* last_save as they are.
C16_SnapshotWhenDue ==
    [][Round =>
          /\ Due <=> call'.attempt # "none"
          /\ call'.attempt = "ok" =>
                 /\ disk' = [file |-> Pickled(Store), tmp |-> FALSE]
                 /\ ~needs_save'
                 /\ last_save' = now
          /\ ~Due => /\ disk' = disk
                     /\ needs_save' = needs_save
                     /\ last_save' = last_save]_vars

\* the save thread has written a snapshot of a library, later than at the start
C16_Witness ==
    /\ call.op = "save_worker"
    /\ call.attempt = "ok"
    /\ disk.file.kind = "state"
    /\ DOMAIN disk.file.libraries # {}
    /\ ~needs_save
    /\ last_save = now
    /\ now > 0

\* C17: a round of the save thread whose save_to_disk fails leaves no
\* temporary file, leaves the snapshot file and the store in memory as they
\* were, and leaves needs_save true and last_save as it was, so that the
\* next round tries again.
C17_FailedSaveRetried ==
    [][(Round /\ call'.attempt = "failed") =>
          /\ ~disk'.tmp
          /\ disk'.file = disk.file
          /\ UNCHANGED <<libraries, indices, heap>>
          /\ needs_save'
          /\ last_save' = last_save]_vars

\* a snapshot of the store as it is has just been written
Snapshotted ==
    /\ call.op = "save_to_disk"
    /\ ret.val
    /\ disk = [file |-> Pickled(Store), tmp |-> FALSE]

\* C18: when a store has just been snapshotted and a new store is loaded
\* from the same data_dir, the new store has the same libraries with the
\* same chunk counts, and every query has the same search result in the new
\* store as it had in the old one.
C18_RoundTrip ==
    [][(Snapshotted /\ call'.op = "load_from_disk") =>
          /\ DOMAIN libraries' = DOMAIN libraries
          /\ \A l \in DOMAIN libraries :
                 get_chunk_count(Store', l).ret.val = get_chunk_count(Store, l).ret.val
          /\ \A q \in Queries :
                 SameOutcome(search(Store', q).ret, search(Store, q).ret)]_vars

\* C19: after a load that succeeded, every restored library has an index,
\* a new one of the restored class, index_library has run for it, and the
\* index holds the chunks of the library's documents and no others; the
\* snapshot holds no index.
C19_LoadRebuildsIndexes ==
    (call.op = "load_from_disk" /\ ret.val) =>
        /\ DOMAIN indices = DOMAIN libraries
        /\ disk.file.kind = "state" =>
               /\ index_class = disk.file.index_class
               /\ "indices" \notin DOMAIN disk.file
        /\ \A l \in DOMAIN libraries :
               /\ indices[l].cls = index_class
               /\ libraries[l].is_indexed
               /\ InSync(l)

\* a store made for the other index class has loaded a library with a chunk
C19_Witness ==
    /\ call.op = "load_from_disk"
    /\ ret.val
    /\ call.index_class # index_class
    /\ \E l \in DOMAIN libraries : Len(TreeChunks(libraries[l])) > 0

\* C20: after a load that failed, the store has no libraries and no
\* indexes, and its index class is the one it was made with.
C20_FailedLoadLeavesEmpty ==
    (call.op = "load_from_disk" /\ ~ret.val) =>
        /\ DOMAIN libraries = {}
        /\ DOMAIN indices = {}
        /\ index_class = call.index_class

\* ------------------------------------------------------------ API routers
\* The request handlers of the routers that do more than hand a call to the
\* store.  A handler's outcome is what it returns, or the exception that
\* leaves it.

\* raise HTTPException(status_code=404, ...)
HTTP404 == "HTTPException(404)"

\* the try block of the search handler: a query of another length than
\* db.embedding_dimension raises HTTPException(400, "Embedding dimension
\* mismatch ..."), any other query goes to db.search
search_try(st, q) ==
    IF Len(q.embedding) # embedding_dimension
    THEN Out(st, Raise("DimensionMismatch"))
    ELSE search(st, q)

\* the search handler: "except Exception" takes whatever the try block
\* raised, the HTTPException of the length check included, logs it, and the
\* handler runs off its end and returns None
search_endpoint(st, q) ==
    LET r == search_try(st, q)
    IN  IF r.ret.status = "raise" THEN Out(r.st, Return(NoneVal)) ELSE r

\* get_library: the library, or None
get_library(st, library_id) ==
    Out(st, Return(IF library_id \in DOMAIN st.libraries THEN library_id ELSE NoneVal))

\* get_document: the (id of the) first document with the id, or None
get_document(st, library_id, document_id) ==
    LET pos == IF library_id \in DOMAIN st.libraries
               THEN FindDoc(st.libraries[library_id].documents, document_id) ELSE 0
    IN  Out(st, Return(IF pos = 0 THEN NoneVal ELSE document_id))

\* get_chunk: the chunk (its address), or None; a ChunkCreate object met on
\* the way has no id
get_chunk(st, library_id, document_id, chunk_id) ==
    LET pos == IF library_id \in DOMAIN st.libraries
               THEN FindDoc(st.libraries[library_id].documents, document_id) ELSE 0
    IN  IF pos = 0 THEN Out(st, Return(NoChunk))
        ELSE LET chunks == st.libraries[library_id].documents[pos].chunks
                 f == FindChunk(chunks, chunk_id, st.heap)
             IN  IF f.raised THEN Out(st, Raise("AttributeError"))
                 ELSE Out(st, Return(IF f.pos = 0 THEN NoChunk ELSE chunks[f.pos]))

\* the loop of create_chunks_bulk: an add_chunk that raises leaves the
\* handler with its exception, one that returns None leaves it with 404
RECURSIVE BulkLoop(_, _, _, _, _)
BulkLoop(st, library_id, document_id, chunks, results) ==
    IF chunks = <<>> THEN Out(st, Return(results))
    ELSE LET r == add_chunk(st, [library_id |-> library_id, document_id |-> document_id,
                                 embedding |-> Head(chunks).embedding,
                                 metadata |-> Head(chunks).metadata])
         IN  IF r.ret.status = "raise" THEN r
             ELSE IF r.ret.val = NoChunk THEN Out(r.st, Raise(HTTP404))
             ELSE BulkLoop(r.st, library_id, document_id, Tail(chunks),
                           Append(results, r.ret.val))

\* the create_chunks_bulk handler: the list of the chunks made
create_chunks_bulk(st, library_id, document_id, chunks) ==
    IF get_document(st, library_id, document_id).ret.val = NoneVal
    THEN Out(st, Raise(HTTP404))
    ELSE BulkLoop(st, library_id, document_id, chunks, <<>>)

\* the switch-index handler: it picks the index class and calls
\* db.switch_index_algorithm, an attribute VectorDatabase does not have
switch_index_algorithm(st, library_id, algorithm) ==
    Out(st, Raise("AttributeError"))

\* the queries and chunk lists sent to the handlers
ApiQueryVecs == {<<1, 0>>, <<1>>}
ApiChunks == [embedding : {<<1, 0>>, <<1>>}, metadata : {EmptyDict}]

SearchEndpoint(Ls, Qs, Fs) ==
    \E l \in Ls, e \in Qs, k \in Ks, f \in Fs :
        LET q == [library_id |-> l, embedding |-> e, k |-> k, metadata_filter |-> f]
        IN  Becomes(search_endpoint(Store, q),
                    [op |-> "search_endpoint", library_id |-> l, query |-> q])

CreateChunksBulk(Ls, Css) ==
    \E l \in Ls, d \in DocIds, cs \in Css :
        /\ Len(heap) + Len(cs) <= MaxObjs
        /\ Becomes(create_chunks_bulk(Store, l, d, cs),
                   [op |-> "create_chunks_bulk", library_id |-> l, document_id |-> d,
                    chunks |-> cs])

SwitchIndexAlgorithm(Ls) ==
    \E l \in Ls, algorithm \in {"lsh", "vector"} :
        Becomes(switch_index_algorithm(Store, l, algorithm),
                [op |-> "switch_index_algorithm", library_id |-> l, algorithm |-> algorithm])

\* the store behind the handlers
NextApi ==
    \/ CreateLibrary(LibIds)
    \/ IndexLibrary(LibIds)
    \/ AddDocument(LibIds, Titles, {<<>>})
    \/ DeleteChunk(LibIds)
    \/ Search(LibIds, ApiQueryVecs, {EmptyDict})
    \/ SearchEndpoint(LibIds, ApiQueryVecs, {EmptyDict})
    \/ CreateChunksBulk(LibIds, ListsOf(ApiChunks, 1, 2))
    \/ SwitchIndexAlgorithm(LibIds)

SpecApi == Init /\ [][NextApi]_vars

\* ------------------------------------------------------------ whole requests
\* The store under create, update and delete requests for libraries,
\* documents and chunks; a call is labelled with all that was sent.

CrudChunks == [embedding : {<<1, 0>>, <<0, 1>>}, metadata : {EmptyDict, [color |-> "red"]}]

LibraryRequests ==
    {[op |-> "create_library", library_id |-> l, metadata |-> m] :
        l \in LibIds, m \in {EmptyDict, [owner |-> "o1"]}}
    \cup {[op |-> "update_library", library_id |-> l, metadata |-> m] :
        l \in LibIds, m \in {EmptyDict, [owner |-> "o1"]}}
    \cup {[op |-> o, library_id |-> l] : o \in {"delete_library", "index_library"}, l \in LibIds}

DocumentRequests ==
    {[op |-> "add_document", library_id |-> l, document_title |-> t, chunks |-> cs,
      metadata |-> m] : l \in LibIds, t \in Titles, cs \in ListsOf(CrudChunks, 0, 1),
              m \in {EmptyDict, [author |-> "A1"]}}
    \cup {[op |-> "update_document", library_id |-> l, document_id |-> d,
           document_title |-> t, chunks |-> cs, metadata |-> m] :
              l \in LibIds, d \in DocIds, t \in MetaNewTitles, cs \in Optional(ListsOf(CrudChunks, 1, 1)),
              m \in {EmptyDict, [author |-> "A1"]}}
    \cup {[op |-> "delete_document", library_id |-> l, document_id |-> d] :
              l \in LibIds, d \in DocIds}

ChunkRequests ==
    {[op |-> "add_chunk", library_id |-> l, document_id |-> d, embedding |-> c.embedding,
      metadata |-> c.metadata] : l \in LibIds, d \in DocIds, c \in CrudChunks}
    \cup {[op |-> "update_chunk", library_id |-> l, document_id |-> d, chunk_id |-> a,
           embedding |-> e, metadata |-> m] :
              l \in LibIds, d \in DocIds, a \in ChunkIds, e \in {<<>>, <<0, 1>>},
              m \in {EmptyDict, [color |-> "blue"]}}
    \cup {[op |-> "delete_chunk", library_id |-> l, document_id |-> d, chunk_id |-> a] :
              l \in LibIds, d \in DocIds, a \in ChunkIds}

\* the store operation a request is handed to
Handle(st, req) ==
    CASE req.op = "create_library" -> create_library(st, req.library_id, req.metadata)
      [] req.op = "update_library" -> update_library(st, req.library_id, req.metadata)
      [] req.op = "delete_library" -> delete_library(st, req.library_id)
      [] req.op = "index_library" -> index_library(st, req.library_id)
      [] req.op = "add_document" ->
             add_document(st, [library_id |-> req.library_id,
                               document_title |-> req.document_title,
                               chunks |-> req.chunks, metadata |-> req.metadata])
      [] req.op = "update_document" ->
             update_document(st, [library_id |-> req.library_id,
                                  document_id |-> req.document_id,
                                  document_title |-> req.document_title,
                                  chunks |-> req.chunks, metadata |-> req.metadata])
      [] req.op = "delete_document" -> delete_document(st, req.library_id, req.document_id)
      [] req.op = "add_chunk" ->
             add_chunk(st, [library_id |-> req.library_id, document_id |-> req.document_id,
                            embedding |-> req.embedding, metadata |-> req.metadata])
      [] req.op = "update_chunk" ->
             update_chunk(st, [library_id |-> req.library_id, document_id |-> req.document_id,
                               chunk_id |-> req.chunk_id, embedding |-> req.embedding,
                               metadata |-> req.metadata])
      [] req.op = "delete_chunk" ->
             delete_chunk(st, req.library_id, req.document_id, req.chunk_id)

\* the objects a request makes
Makes(req) ==
    CASE req.op = "add_document" -> Len(req.chunks)
      [] req.op = "update_document" -> Len(req.chunks.items)
      [] req.op = "add_chunk" -> 1
      [] OTHER -> 0

\* a request is handled, in a store of at most docs documents and objs objects
RequestWithin(reqs, docs, objs) ==
    \E req \in reqs :
        /\ req.op = "add_document" => nextDocId <= docs
        /\ Len(heap) + Makes(req) <= objs
        /\ Becomes(Handle(Store, req), req)

Request(reqs) == RequestWithin(reqs, MaxDocs, MaxObjs)

NextCrud ==
    \/ Request(LibraryRequests)
    \/ Request(DocumentRequests)
    \/ Request(ChunkRequests)

SpecCrud == Init /\ [][NextCrud]_vars

\* ------------------------------------------------------------------- order
\* One library with up to OrderDocs documents and OrderObjs chunks, which
\* are added and deleted one by one.
OrderDocs == 2
OrderObjs == 3

\* documents and chunks are added, changed and deleted
NextOrder ==
    \/ RequestWithin({[op |-> "create_library", library_id |-> l, metadata |-> EmptyDict] :
                          l \in LibIds}
                      \cup {[op |-> "index_library", library_id |-> l] : l \in LibIds},
                     OrderDocs, OrderObjs)
    \/ RequestWithin({[op |-> "add_document", library_id |-> l, document_title |-> "T1",
                        chunks |-> cs, metadata |-> EmptyDict] :
                          l \in LibIds,
                          cs \in ListsOf([embedding : {<<1, 0>>}, metadata : {EmptyDict}], 0, 2)}
                      \cup {[op |-> "delete_document", library_id |-> l, document_id |-> DocId(n)] :
                          l \in LibIds, n \in 1 .. OrderDocs},
                     OrderDocs, OrderObjs)
    \/ RequestWithin({[op |-> "add_chunk", library_id |-> l, document_id |-> DocId(n),
                        embedding |-> <<1, 0>>, metadata |-> EmptyDict] :
                          l \in LibIds, n \in 1 .. OrderDocs}
                      \cup {[op |-> "update_chunk", library_id |-> l, document_id |-> DocId(n),
                             chunk_id |-> a, embedding |-> <<0, 1>>, metadata |-> EmptyDict] :
                          l \in LibIds, n \in 1 .. OrderDocs, a \in 1 .. OrderObjs}
                      \cup {[op |-> "delete_chunk", library_id |-> l, document_id |-> DocId(n),
                             chunk_id |-> a] :
                          l \in LibIds, n \in 1 .. OrderDocs, a \in 1 .. OrderObjs},
                     OrderDocs, OrderObjs)

SpecOrder == Init /\ [][NextOrder]_vars

\* --------------------------------------------------------------- lock order
\* Two request threads and the save thread on the store lock, and the lock
\* of the library's index, which insert, search and clear of the index take
\* for their whole body (with self._lock).  The index belongs to the store:
\* only the store's operations call its methods.

Saver == "saver"

\* the calls of the request threads: t1 changes documents and chunks, t2
\* searches and rebuilds
LockCalls(t) ==
    IF t = "t1"
    THEN {[op |-> "create_library", arg |-> [library_id |-> l]] : l \in LibIds}
         \cup {[op |-> "add_document",
                arg |-> [library_id |-> l, document_title |-> "T1",
                         chunks |-> <<[embedding |-> <<1, 0>>, metadata |-> EmptyDict]>>,
                         metadata |-> EmptyDict]] : l \in LibIds}
         \cup {[op |-> "delete_chunk",
                arg |-> [library_id |-> l, document_id |-> d, chunk_id |-> c]] :
                   l \in LibIds, d \in DocIds, c \in ChunkIds}
    ELSE {[op |-> "index_library", arg |-> [library_id |-> l]] : l \in LibIds}
         \cup {[op |-> "search",
                arg |-> [library_id |-> l, embedding |-> <<1, 0>>, k |-> 2,
                         metadata_filter |-> EmptyDict]] : l \in LibIds}

\* a thread is handed a request and reaches "with self._lock"
LCall(t) ==
    \E c \in LockCalls(t) :
        /\ pc[t] = "idle"
        /\ c.op = "add_document" =>
               nextDocId <= MaxDocs /\ Len(heap) + Len(c.arg.chunks) <= MaxObjs
        /\ frame' = [frame EXCEPT ![t] = [IdleFrame EXCEPT !.op = c.op, !.arg = c.arg]]
        /\ pc' = [pc EXCEPT ![t] = "waiting"]
        /\ StoreUnchanged
        /\ UNCHANGED <<call, ret, lock, stable, disk, last_save, now, index_lock, save_pc>>

\* the next step of the thread is a call of index.search, index.clear or
\* index.insert
AtIndexCall(t) ==
    \/ /\ pc[t] = "search_body"
       /\ frame[t].arg.library_id \in DOMAIN libraries
       /\ libraries[frame[t].arg.library_id].is_indexed
    \/ pc[t] = "il_clear"
    \/ pc[t] = "il_insert" /\ frame[t].todo # <<>>

\* the method of the index takes the index lock and runs its body
LIndexCall(t) ==
    /\ AtIndexCall(t)
    /\ index_lock.owner = NoThread
    /\ index_lock' = [owner |-> t, depth |-> 1]
    /\ (TSearchBody(t) \/ TIndexClear(t) \/ TIndexInsert(t))

\* the method of the index is left, by return or by exception, and the
\* index lock is free again
LIndexReturn(t) ==
    /\ index_lock.owner = t
    /\ index_lock' = [owner |-> NoThread, depth |-> 0]
    /\ StoreUnchanged
    /\ UNCHANGED <<call, ret, lock, pc, frame, stable, disk, last_save, now, save_pc>>

\* the steps of a store operation outside the methods of the index
LStoreStep(t) ==
    /\ index_lock.owner # t
    /\ \/ TAcquire(t)
       \/ ~AtIndexCall(t) /\ TSearchBody(t) /\ UNCHANGED index_lock
       \/ TWholeBody(t)
       \/ TIndexLookup(t)
       \/ TIndexFinish(t)
       \/ TIndexExit(t)
       \/ TDeleteChunkPop(t)
       \/ TIndexEnter(t)
       \/ TChunkFinish(t)
       \/ TRelease(t)

SaverIdle ==
    UNCHANGED <<libraries, indices, heap, index_class, nextDocId, call, ret, pc, frame,
                stable, now, index_lock>>

\* time.sleep(check_save_interval) is over
SWake ==
    /\ save_pc = "sleep"
    /\ save_pc' = "waiting"
    /\ SaverIdle
    /\ UNCHANGED <<needs_save, lock, disk, last_save>>

\* save_worker: with self._lock
SAcquire ==
    /\ save_pc = "waiting"
    /\ CanAcquire(Saver)
    /\ lock' = Acquired(Saver)
    /\ save_pc' = "check"
    /\ SaverIdle
    /\ UNCHANGED <<needs_save, disk, last_save>>

\* if self._needs_save and ... >= self.save_interval
SCheck ==
    /\ save_pc = "check"
    /\ save_pc' = IF needs_save /\ now - last_save >= save_interval
                  THEN "save_enter" ELSE "release"
    /\ SaverIdle
    /\ UNCHANGED <<needs_save, lock, disk, last_save>>

\* save_to_disk takes the lock its caller holds
SSaveEnter ==
    /\ save_pc = "save_enter"
    /\ CanAcquire(Saver)
    /\ lock' = Acquired(Saver)
    /\ save_pc' = "save_body"
    /\ SaverIdle
    /\ UNCHANGED <<needs_save, disk, last_save>>

\* save_to_disk writes the snapshot or fails, and gives up its hold of the
\* lock; save_worker sets _last_save and _needs_save
SSaveBody ==
    \E outcome \in SaveOutcomes :
        LET r == save_worker(Store, last_save, disk, now, outcome)
        IN  /\ save_pc = "save_body"
            /\ needs_save' = r.st.needs_save
            /\ last_save' = r.last_save
            /\ disk' = r.disk
            /\ lock' = Released
            /\ save_pc' = "release"
            /\ SaverIdle

\* save_worker leaves "with self._lock" and sleeps again
SRelease ==
    /\ save_pc = "release"
    /\ lock' = Released
    /\ save_pc' = "sleep"
    /\ SaverIdle
    /\ UNCHANGED <<needs_save, disk, last_save>>

NextLocks ==
    \/ \E t \in Threads :
           \/ LCall(t)
           \/ LIndexCall(t)
           \/ LIndexReturn(t)
           \/ LStoreStep(t)
    \/ SWake
    \/ SAcquire
    \/ SCheck
    \/ SSaveEnter
    \/ SSaveBody
    \/ SRelease
    \/ Pass

\* the step is a step of thread t: t is at another place, or has taken or
\* given back the index lock
Moves(t) ==
    /\ pc' \in [Threads -> {"idle", "waiting", "search_body", "whole_body", "il_lookup",
                             "il_clear", "il_insert", "il_exit", "dc_pop", "uc_apply",
                             "il_enter", "chunk_finish", "release"}]
    /\ index_lock' \in [owner : Threads \cup {NoThread}, depth : {0, 1}]
    /\ \/ pc'[t] # pc[t]
       \/ (index_lock'.owner = t) # (index_lock.owner = t)

\* thread t is in a store operation and its next step waits for no lock
\* that another thread holds
Runnable(t) ==
    \/ index_lock.owner = t
    \/ AtIndexCall(t) /\ index_lock.owner = NoThread
    \/ pc[t] \in {"whole_body", "il_lookup", "il_exit", "dc_pop", "chunk_finish", "release"}
    \/ pc[t] = "search_body" /\ ~AtIndexCall(t)
    \/ pc[t] = "il_insert" /\ frame[t].todo = <<>>
    \/ pc[t] = "il_enter" /\ CanAcquire(t)

\* A thread that can go on does go on (the threads are scheduled by the
\* operating system); a thread that waits for the store lock gets it when
\* the lock is free again and again.
FairLocks ==
    /\ \A t \in Threads :
           /\ WF_<<pc, index_lock>>(Runnable(t) /\ Moves(t))
           /\ SF_<<pc, index_lock>>(pc[t] = "waiting" /\ CanAcquire(t) /\ Moves(t))
    /\ SF_save_pc(SAcquire)
    /\ WF_save_pc(SCheck \/ SSaveEnter \/ SSaveBody \/ SRelease)

SpecLocks == Init /\ [][NextLocks]_vars /\ FairLocks

\* ------------------------------------------------------------ claims C21..C30
WrongLength(embedding) == Len(embedding) # embedding_dimension

\* the documents, chunks, index contents and dirty flag are as they were
StateKept == UNCHANGED <<libraries, indices, heap, needs_save>>

\* C21: add_document whose initial chunks hold an embedding of another
\* length than embedding_dimension, on a library that exists, raises
\* DimensionMismatch and leaves the documents, the chunks, the index
\* contents and the dirty flag as they were; add_chunk never returns a chunk
\* whose embedding has another length, and when it raises it raises
\* DimensionMismatch and leaves the state as it was.
C21_WrongLengthRejected ==
    [][/\ ( /\ call'.op = "add_document"
            /\ call'.library_id \in DOMAIN libraries
            /\ \E i \in 1 .. Len(call'.chunks) : WrongLength(call'.chunks[i].embedding) )
          => (ret' = Raise("DimensionMismatch") /\ StateKept)
       /\ (call'.op = "add_chunk" /\ ret'.status = "return" /\ ret'.val # NoChunk)
          => ~WrongLength(heap'[ret'.val].embedding)
       /\ (call'.op = "add_chunk" /\ ret'.status = "raise")
          => (ret' = Raise("DimensionMismatch") /\ StateKept)
      ]_vars

\* C22: a search on an indexed library whose query embedding has another
\* length than embedding_dimension gives its caller a DimensionMismatch
\* error, from the search handler as from the store's search.
C22_QueryLengthSurfaced ==
    ( /\ call.op \in {"search_endpoint", "search"}
      /\ WrongLength(call.query.embedding)
      /\ Indexed(call.library_id) )
    => (ret.status = "raise" /\ ret.val = "DimensionMismatch")

\* the chunks of a document of a library, none when it is not there
ChunksOf(libs, l, d) ==
    IF l \in DOMAIN libs /\ FindDoc(libs[l].documents, d) # 0
    THEN libs[l].documents[FindDoc(libs[l].documents, d)].chunks ELSE <<>>

\* the items of a chunk list whose embedding has the configured length
RightLength(chunks) == {i \in 1 .. Len(chunks) : ~WrongLength(chunks[i].embedding)}

\* C25: switch_index_algorithm returns false (the handler answers 404) when
\* the library does not exist; otherwise it returns true, the library's
\* index is then a new empty index of the class asked for, and a search of
\* the library returns no chunks.
C25_SwitchIndexAlgorithm ==
    [][call'.op = "switch_index_algorithm" =>
          IF call'.library_id \notin DOMAIN libraries
          THEN ret' = Raise(HTTP404) /\ StateKept
          ELSE /\ ret'.status = "return"
               /\ indices'[call'.library_id] = NewIndex(call'.algorithm)
               /\ \A e \in ApiQueryVecs :
                      LET r == search(Store', [library_id |-> call'.library_id, embedding |-> e,
                                               k |-> 2, metadata_filter |-> EmptyDict])
                      IN  r.ret.status = "return" /\ r.ret.val = <<>>
      ]_vars

\* C28: a create_chunks_bulk on a document that exists answers with one
\* outcome for each chunk sent, and every chunk sent with an embedding of the
\* configured length is in the document afterwards, also when a chunk
\* before it failed.
C28_BulkGoesOn ==
    [][( /\ call'.op = "create_chunks_bulk"
         /\ FindDoc(IF call'.library_id \in DOMAIN libraries
                    THEN libraries[call'.library_id].documents ELSE <<>>,
                    call'.document_id) # 0 )
       => /\ ret'.status = "return"
          /\ Len(ret'.val) = Len(call'.chunks)
          /\ Len(ChunksOf(libraries', call'.library_id, call'.document_id))
                 >= Len(ChunksOf(libraries, call'.library_id, call'.document_id))
                        + Cardinality(RightLength(call'.chunks))
      ]_vars

\* every entry of the metadata sent is in the metadata stored
Carries(stored, sent) == \A key \in DOMAIN sent : DictGet(stored, key) = sent[key]

\* the chunks of a document are the chunks sent, in their order
ChunksAsSent(chunks, sent) ==
    /\ Len(chunks) = Len(sent)
    /\ \A i \in 1 .. Len(sent) :
           /\ heap[chunks[i]].embedding = sent[i].embedding
           /\ Carries(heap[chunks[i]].metadata, sent[i].metadata)

\* get_document finds the document, with the title, the metadata and the
\* chunks of the request where it sent them
DocumentAsSent(l, d, title, metadata, some, sent) ==
    /\ get_document(Store, l, d).ret.val = d
    /\ title # NoneVal => DocOf(l, d).document_title = title
    /\ Carries(DocOf(l, d).metadata, metadata)
    /\ some => ChunksAsSent(DocOf(l, d).chunks, sent)

\* get_chunk finds the chunk, with the embedding and the metadata sent
ChunkAsSent(l, d, a, embedding, metadata) ==
    LET r == get_chunk(Store, l, d, a).ret
    IN  /\ r.status = "return"
        /\ r.val = a
        /\ embedding # <<>> => heap[a].embedding = embedding
        /\ Carries(heap[a].metadata, metadata)

\* C23: after a create that succeeded, get returns the entity with what was
\* sent; after an update that succeeded, get returns it with what the update
\* sent; after a delete that succeeded, get returns None.  For libraries,
\* documents and chunks.
C23_CreateUpdateDeleteGet ==
    /\ (call.op = "create_library" /\ ret.status = "return") =>
           /\ get_library(Store, call.library_id).ret.val = call.library_id
           /\ libraries[call.library_id].metadata = call.metadata
    /\ (call.op = "update_library" /\ ret.status = "return" /\ ret.val # NoneVal) =>
           /\ get_library(Store, call.library_id).ret.val = call.library_id
           /\ Carries(libraries[call.library_id].metadata, call.metadata)
    /\ (call.op = "delete_library" /\ ret.status = "return" /\ ret.val) =>
           get_library(Store, call.library_id).ret.val = NoneVal
    /\ (call.op = "add_document" /\ ret.status = "return" /\ ret.val # NoneVal) =>
           DocumentAsSent(call.library_id, ret.val, call.document_title, call.metadata,
                          TRUE, call.chunks)
    /\ (call.op = "update_document" /\ ret.status = "return" /\ ret.val # NoneVal) =>
           DocumentAsSent(call.library_id, call.document_id, call.document_title,
                          call.metadata, call.chunks.some, call.chunks.items)
    /\ (call.op = "delete_document" /\ ret.status = "return" /\ ret.val) =>
           get_document(Store, call.library_id, call.document_id).ret.val = NoneVal
    /\ (call.op = "add_chunk" /\ ret.status = "return" /\ ret.val # NoChunk) =>
           ChunkAsSent(call.library_id, call.document_id, ret.val, call.embedding,
                       call.metadata)
    /\ (call.op = "update_chunk" /\ ret.status = "return" /\ ret.val # NoChunk) =>
           ChunkAsSent(call.library_id, call.document_id, call.chunk_id, call.embedding,
                       call.metadata)
    /\ (call.op = "delete_chunk" /\ ret.status = "return" /\ ret.val) =>
           LET r == get_chunk(Store, call.library_id, call.document_id, call.chunk_id).ret
           IN  r.status = "return" /\ r.val = NoChunk

\* C24: delete_library on a library that exists returns true, and then the
\* library is gone with its index and its chunks: get_library returns None,
\* get_chunk_count returns 0 and every search of the id returns the empty
\* sequence.  On an id that is not there it returns false and changes
\* nothing.
C24_DeleteLibrary ==
    [][call'.op = "delete_library" =>
          LET l == call'.library_id
          IN  IF l \in DOMAIN libraries
              THEN /\ ret'.status = "return" /\ ret'.val = TRUE
                   /\ get_library(Store', l).ret.val = NoneVal
                   /\ l \notin DOMAIN indices'
                   /\ \A i \in 1 .. Len(TreeChunks(libraries[l])) :
                          heap'[TreeChunks(libraries[l])[i]] = Freed
                   /\ get_chunk_count(Store', l).ret.val = 0
                   /\ \A q \in Queries :
                          q.library_id = l =>
                              LET r == search(Store', q).ret
                              IN  r.status = "return" /\ r.val = <<>>
              ELSE /\ ret'.status = "return" /\ ret'.val = FALSE
                   /\ StateKept
      ]_vars

\* C24 witness: delete_library returned true in a store that has had a
\* document and chunks, none of which is left
C24_Witness ==
    /\ call.op = "delete_library"
    /\ ret.status = "return"
    /\ ret.val
    /\ nextDocId > 1
    /\ Len(heap) > 0
    /\ \A a \in 1 .. Len(heap) : heap[a] = Freed

\* a thread is inside a store operation, between taking the lock and
\* giving it back
Inside(t) == pc[t] \notin {"idle", "waiting"}

\* inside the index_library that delete_chunk or update_chunk called
InsideNested(t) ==
    frame[t].nested /\ pc[t] \in {"il_lookup", "il_clear", "il_insert", "il_exit"}

\* the operation of a thread, run in one piece
Sequential(st, op, arg) ==
    CASE op = "create_library" -> create_library(st, arg.library_id, EmptyDict)
      [] op = "add_document" -> add_document(st, arg)
      [] op = "delete_chunk" -> delete_chunk(st, arg.library_id, arg.document_id, arg.chunk_id)
      [] op = "update_chunk" -> update_chunk(st, arg)
      [] op = "index_library" -> index_library(st, arg.library_id)
      [] op = "search" -> search(st, arg)

\* the store as it was when the thread took the lock: what the last
\* operation that finished left
Before(t) ==
    [libraries |-> stable.libraries, indices |-> stable.indices, heap |-> stable.heap,
     index_class |-> index_class,
     nextDocId |-> IF frame[t].op = "add_document"
                      /\ frame[t].arg.library_id \in DOMAIN stable.libraries
                   THEN nextDocId - 1 ELSE nextDocId,
     needs_save |-> FALSE]

\* C26: a thread inside a store operation holds the store lock, twice while
\* it is in the index_library that delete_chunk or update_chunk called; no
\* two threads are inside a store operation at the same time; and an
\* operation that has run its body has the outcome and has left the
\* libraries, indexes and chunks that the operation run in one piece gives
\* from the store the operation before it left (linearizable).
C26_LockHeldThroughout ==
    /\ \A t \in Threads :
           Inside(t) =>
               /\ lock.owner = t
               /\ lock.depth = (IF InsideNested(t) THEN 2 ELSE 1)
               /\ \A u \in Threads \ {t} : ~Inside(u)
    /\ \A t \in Threads :
           pc[t] = "release" =>
               LET r == Sequential(Before(t), frame[t].op, frame[t].arg)
               IN  /\ SameOutcome(frame[t].result, r.ret)
                   /\ View(Store) = View(r.st)

\* C26 witness: a thread is in the index_library that its delete_chunk or
\* update_chunk called, about to insert a chunk, while the other thread
\* waits for the lock
C26_Witness ==
    \E t \in Threads :
        /\ InsideNested(t)
        /\ pc[t] = "il_insert"
        /\ frame[t].todo # <<>>
        /\ \E u \in Threads \ {t} : pc[u] = "waiting"

\* the store lock is taken first, the index lock second: whoever holds the
\* index lock holds the store lock
LockOrder == index_lock.owner # NoThread => lock.owner = index_lock.owner

\* a holder of the store lock that is about to take it again can take it
ReentryFree ==
    /\ \A t \in Threads : pc[t] = "il_enter" => (lock.owner = t /\ CanAcquire(t))
    /\ save_pc = "save_enter" => (lock.owner = Saver /\ CanAcquire(Saver))

Ahead(chunks, query, i, j) ==
    \/ DistLess(Scored(query, chunks[i], heap), Scored(query, chunks[j], heap))
    \/ /\ DistEq(Scored(query, chunks[i], heap), Scored(query, chunks[j], heap))
       /\ i < j

\* the place of position i among the chunks in that order
Rank(chunks, query, i) ==
    1 + Cardinality({j \in 1 .. Len(chunks) : Ahead(chunks, query, j, i)})

\* the nearest k of the chunks, each with its distance, in that order
NearestK(chunks, query, k) ==
    [n \in 1 .. (IF k < Len(chunks) THEN k ELSE Len(chunks)) |->
        Scored(query, chunks[CHOOSE i \in 1 .. Len(chunks) : Rank(chunks, query, i) = n], heap)]

\* a search with no metadata filter and k >= 0, by a query of the configured
\* length, of an indexed library whose index is of the given class
PlainSearchOf(cls) ==
    /\ call.op = "search"
    /\ Indexed(call.library_id)
    /\ call.library_id \in DOMAIN indices
    /\ indices[call.library_id].cls = cls
    /\ DOMAIN call.query.metadata_filter = {}
    /\ call.query.k >= 0
    /\ ~WrongLength(call.query.embedding)

\* C29: a search of an exact index whose N chunks all have the configured
\* length returns the min(k, N) chunks most similar to the query, each with
\* its distance, in descending similarity, chunks of equal similarity in
\* their insertion order.
C29_ExactSearch ==
    (/\ PlainSearchOf("vector")
     /\ \A i \in 1 .. Len(indices[call.library_id].chunks) :
            /\ heap[indices[call.library_id].chunks[i]].kind # "freed"
            /\ ~WrongLength(heap[indices[call.library_id].chunks[i]].embedding))
        => /\ ret.status = "return"
           /\ ret.val = NearestK(indices[call.library_id].chunks, call.query.embedding,
                                 call.query.k)

\* the chunks an LSH index holds in the bucket of the query's hash, in at
\* least one table
Matching(index, query) ==
    {a \in 1 .. Len(heap) :
        \E t \in 1 .. n_tables :
            LET bucket == Bucket(index.hash_tables[t], hash_vector(query, planes[t]))
            IN  \E i \in 1 .. Len(bucket) : bucket[i] = a}

\* C30: a search of an LSH index whose matching buckets hold chunks returns
\* only chunks of those buckets, none of them twice, each with its exact
\* cosine distance, in ascending distance, and as many as the smaller of k
\* and the number of matching chunks, none left out being nearer than one
\* returned; it returns the empty sequence when no bucket matches.
C30_LSHSearch ==
    (/\ PlainSearchOf("lsh")
     /\ \A a \in Matching(indices[call.library_id], call.query.embedding) :
            heap[a].kind = "Chunk")
        => LET query == call.query.embedding
               k == call.query.k
               found == Matching(indices[call.library_id], query)
           IN  /\ ret.status = "return"
               /\ \A i \in 1 .. Len(ret.val) :
                      /\ ret.val[i].chunk \in found
                      /\ ret.val[i] = Scored(query, ret.val[i].chunk, heap)
                      /\ \A j \in 1 .. Len(ret.val) : i < j =>
                             /\ ret.val[i].chunk # ret.val[j].chunk
                             /\ ~DistLess(ret.val[j], ret.val[i])
                      /\ \A a \in found :
                             (\A j \in 1 .. Len(ret.val) : ret.val[j].chunk # a)
                                 => ~DistLess(Scored(query, a, heap), ret.val[i])
               /\ Len(ret.val) = (IF k < Cardinality(found) THEN k ELSE Cardinality(found))

\* ------------------------------------------------------------ two libraries
\* Two libraries in one store; a request names one of them, and may name a
\* document or a chunk of the other.
TwoLibs == {"L1", "L2"}

NextTwo ==
    \/ RequestWithin({[op |-> "create_library", library_id |-> l, metadata |-> EmptyDict] :
                          l \in TwoLibs}
                      \cup {[op |-> "update_library", library_id |-> l,
                             metadata |-> [owner |-> "o1"]] : l \in TwoLibs}
                      \cup {[op |-> o, library_id |-> l] :
                               o \in {"delete_library", "index_library"}, l \in TwoLibs},
                     MaxDocs, MaxObjs)
    \/ RequestWithin({[op |-> "add_document", library_id |-> l, document_title |-> "T1",
                        chunks |-> cs, metadata |-> EmptyDict] :
                          l \in TwoLibs,
                          cs \in ListsOf([embedding : {<<1, 0>>}, metadata : {EmptyDict}], 0, 1)}
                      \cup {[op |-> "update_document", library_id |-> l,
                             document_id |-> DocId(n), document_title |-> "T3", chunks |-> cs,
                             metadata |-> EmptyDict] :
                          l \in TwoLibs, n \in 1 .. MaxDocs,
                          cs \in Optional({})}
                      \cup {[op |-> "delete_document", library_id |-> l, document_id |-> DocId(n)] :
                          l \in TwoLibs, n \in 1 .. MaxDocs},
                     MaxDocs, MaxObjs)
    \/ RequestWithin({[op |-> "add_chunk", library_id |-> l, document_id |-> DocId(n),
                        embedding |-> <<1, 0>>, metadata |-> EmptyDict] :
                          l \in TwoLibs, n \in 1 .. MaxDocs}
                      \cup {[op |-> "update_chunk", library_id |-> l, document_id |-> DocId(n),
                             chunk_id |-> a, embedding |-> <<0, 1>>, metadata |-> EmptyDict] :
                          l \in TwoLibs, n \in 1 .. MaxDocs, a \in ChunkIds}
                      \cup {[op |-> "delete_chunk", library_id |-> l, document_id |-> DocId(n),
                             chunk_id |-> a] :
                          l \in TwoLibs, n \in 1 .. MaxDocs, a \in ChunkIds},
                     MaxDocs, MaxObjs)
    \/ Search(TwoLibs, {<<1, 0>>}, {EmptyDict})

SpecTwo == Init /\ [][NextTwo]_vars

\* ------------------------------------------------------------- persistence
\* The store, the save thread and the clock, on a disk that takes every
\* write: save_to_disk does not fail.

\* the requests of the thread that changes the store
PersistRequests ==
    {[op |-> "create_library", library_id |-> l, metadata |-> EmptyDict] : l \in LibIds}
    \cup {[op |-> o, library_id |-> l] : o \in {"delete_library", "index_library"}, l \in LibIds}
    \cup {[op |-> "add_document", library_id |-> l, document_title |-> "T1", chunks |-> <<>>,
           metadata |-> EmptyDict] : l \in LibIds}
    \cup {[op |-> "add_chunk", library_id |-> l, document_id |-> d, embedding |-> <<1, 0>>,
           metadata |-> EmptyDict] : l \in LibIds, d \in DocIds}
    \cup {[op |-> "delete_chunk", library_id |-> l, document_id |-> d, chunk_id |-> a] :
              l \in LibIds, d \in DocIds, a \in ChunkIds}

\* a request thread runs a store call from "with self._lock" to its return,
\* which keeps the save thread out; the thread keeps what the call returned
Serve(t, reqs) ==
    \E req \in reqs :
        LET r == Handle(Store, req)
        IN  /\ req.op = "add_document" => nextDocId <= MaxDocs
            /\ Len(heap) + Makes(req) <= MaxObjs
            /\ libraries' = r.st.libraries
            /\ indices' = r.st.indices
            /\ heap' = Collect(r.st)
            /\ index_class' = r.st.index_class
            /\ nextDocId' = r.st.nextDocId
            /\ needs_save' = r.st.needs_save
            /\ call' = req
            /\ frame' = [frame EXCEPT ![t] = [IdleFrame EXCEPT !.op = req.op, !.arg = req,
                                                                !.result = r.ret]]
            /\ UNCHANGED <<ret, lock, pc, stable, disk, last_save, now, index_lock, save_pc>>

NextPersist ==
    \/ Serve("t1", PersistRequests)
    \/ SaveWorkerWith({"ok"})
    \/ Pass

\* The save thread is a thread of its own that sleeps check_save_interval
\* and runs its round again, for ever: a snapshot that stays due is written
\* (the round that finds it due is the only step that clears needs_save);
\* and time passes.
FairPersist ==
    /\ WF_needs_save(needs_save /\ now - last_save >= save_interval /\ needs_save' = FALSE)
    /\ WF_now(Pass)

SpecPersist == Init /\ [][NextPersist]_vars /\ FairPersist

\* ------------------------------------------------------- claims C31..C40
\* the candidates of a search: every chunk of an exact index, the chunks of
\* the matching buckets of an LSH index
Candidates(index, query) ==
    IF index.cls = "vector" THEN {index.chunks[i] : i \in 1 .. Len(index.chunks)}
    ELSE Matching(index, query)

\* a search with no metadata filter whose candidates are chunks of the
\* configured length
SearchOverChunks ==
    /\ \/ PlainSearchOf("vector")
       \/ PlainSearchOf("lsh")
    /\ \A a \in Candidates(indices[call.library_id], call.query.embedding) :
           heap[a].kind = "Chunk" /\ ~WrongLength(heap[a].embedding)

\* C31: with no metadata filter, a search with k = 0 returns the empty
\* sequence, and a search with k at least the number of candidates returns
\* every candidate once and nothing else, without raising.
C31_ZeroAndLargeK ==
    SearchOverChunks =>
        LET cands == Candidates(indices[call.library_id], call.query.embedding)
        IN  /\ call.query.k = 0 => ret = Return(<<>>)
            /\ call.query.k >= Cardinality(cands) =>
                   /\ ret.status = "return"
                   /\ Len(ret.val) = Cardinality(cands)
                   /\ {ret.val[i].chunk : i \in 1 .. Len(ret.val)} = cands

\* C32: the libraries and the indexes have the same keys: every library has
\* an index and there is no index of a library that does not exist.
C32_OneIndexPerLibrary == DOMAIN libraries = DOMAIN indices

\* the chunks an LSH index holds (each inserted chunk is in every table)
Inserted(index) ==
    {a \in 1 .. Len(heap) :
        \E key \in DOMAIN index.hash_tables[1] :
            \E i \in 1 .. Len(index.hash_tables[1][key]) : index.hash_tables[1][key][i] = a}

\* the addresses of a set in ascending order, the order the chunks were made in
InOrder(S) ==
    [n \in 1 .. Cardinality(S) |->
        CHOOSE a \in S : Cardinality({b \in S : b < a}) = n - 1]

\* the exact index that the same insertions give
ExactOf(index) == InsertAll(NewIndex("vector"), InOrder(Inserted(index)), heap).index

\* C33: a search of an LSH index that holds chunks returns, and so does the
\* search of the exact index holding the same chunks; what the LSH index
\* returns are inserted chunks, each with the distance the exact index gives
\* it, and it is the exact index's ranking of all chunks restricted to the
\* chunks of the matching buckets, cut to k; when every inserted chunk is in
\* a matching bucket the two searches return the same.
C33_LSHAgreesWithExact ==
    (/\ PlainSearchOf("lsh")
     /\ \A a \in Inserted(indices[call.library_id]) : heap[a].kind = "Chunk")
        => LET index == indices[call.library_id]
               query == call.query.embedding
               k == call.query.k
               cands == Matching(index, query)
               ranking == VectorSearch(ExactOf(index), query, Cardinality(Inserted(index)), heap)
               exact == VectorSearch(ExactOf(index), query, k, heap)
           IN  /\ ret.status = "return"
               /\ ranking.status = "return"
               /\ \A i \in 1 .. Len(ret.val) :
                      /\ ret.val[i].chunk \in Inserted(index)
                      /\ \E j \in 1 .. Len(ranking.val) : ranking.val[j] = ret.val[i]
               /\ ret.val = Slice(SelectSeq(ranking.val, LAMBDA e : e.chunk \in cands), k)
               /\ cands = Inserted(index) => (exact.status = "return" /\ ret.val = exact.val)

\* the ids of a library's documents, in their order
DocOrder(libs, l) ==
    IF l \in DOMAIN libs
    THEN [i \in 1 .. Len(libs[l].documents) |-> libs[l].documents[i].id] ELSE <<>>

\* sequence t is sequence s without its first element equal to x
FirstRemoved(s, t, x) ==
    \E i \in 1 .. Len(s) :
        /\ s[i] = x
        /\ \A j \in 1 .. (i - 1) : s[j] # x
        /\ t = SubSeq(s, 1, i - 1) \o SubSeq(s, i + 1, Len(s))

\* the chunks of every document of library l but d are what they were
OtherChunksKept(l, d) ==
    \A n \in 1 .. OrderDocs :
        (DocId(n) # d /\ FindDoc(libraries'[l].documents, DocId(n)) # 0)
            => ChunksOf(libraries', l, DocId(n)) = ChunksOf(libraries, l, DocId(n))

\* C34: add_document puts the new document behind the library's documents,
\* with its chunks in the order they were sent; add_chunk puts the new chunk
\* behind the document's chunks; delete_document and delete_chunk take out
\* the one element with the id and leave the others in their order; every
\* other call but create_library leaves both orders as they are.
C34_InsertionOrderKept ==
    [][LET l == call'.library_id
           op == call'.op
           done == ret'.status = "return"
       IN  (l \in DOMAIN libraries /\ op # "create_library") =>
           IF op = "add_document" /\ done /\ ret'.val # NoneVal
           THEN /\ DocOrder(libraries', l) = Append(DocOrder(libraries, l), ret'.val)
                /\ OtherChunksKept(l, ret'.val)
                /\ ChunksOf(libraries', l, ret'.val)
                       = [i \in 1 .. Len(call'.chunks) |-> Len(heap) + i]
           ELSE IF op = "add_chunk" /\ done /\ ret'.val # NoChunk
           THEN /\ DocOrder(libraries', l) = DocOrder(libraries, l)
                /\ OtherChunksKept(l, call'.document_id)
                /\ ChunksOf(libraries', l, call'.document_id)
                       = Append(ChunksOf(libraries, l, call'.document_id), ret'.val)
                /\ ret'.val = Len(heap) + 1
           ELSE IF op = "delete_document" /\ done /\ ret'.val
           THEN /\ FirstRemoved(DocOrder(libraries, l), DocOrder(libraries', l),
                                call'.document_id)
                /\ OtherChunksKept(l, call'.document_id)
           ELSE IF op = "delete_chunk" /\ done /\ ret'.val
           THEN /\ DocOrder(libraries', l) = DocOrder(libraries, l)
                /\ OtherChunksKept(l, call'.document_id)
                /\ FirstRemoved(ChunksOf(libraries, l, call'.document_id),
                                ChunksOf(libraries', l, call'.document_id), call'.chunk_id)
           ELSE /\ DocOrder(libraries', l) = DocOrder(libraries, l)
                /\ OtherChunksKept(l, NoneVal)
      ]_vars

\* C34 witness: the middle one of three chunks of a document was deleted,
\* the first and the last are left in their order
C34_Witness ==
    /\ call.op = "delete_chunk"
    /\ ret.status = "return" /\ ret.val = TRUE
    /\ call.chunk_id = 2
    /\ ChunksOf(libraries, call.library_id, call.document_id) = <<1, 3>>

\* store st has no document d in a library l
NoDocument(st, l, d) ==
    l \notin DOMAIN st.libraries \/ FindDoc(st.libraries[l].documents, d) = 0

\* store st has no chunk with id a in a document d of a library l
NoSuchChunk(st, l, d, a) ==
    \/ NoDocument(st, l, d)
    \/ \A i \in 1 .. Len(ChunksOf(st.libraries, l, d)) :
           \/ ChunksOf(st.libraries, l, d)[i] # a
           \/ st.heap[a].kind # "Chunk"

\* what a call returns for a library, document or chunk that is not there
NotFoundValue(op) ==
    CASE op \in {"delete_library", "index_library", "delete_document", "delete_chunk"} -> FALSE
      [] op \in {"add_chunk", "update_chunk"} -> NoChunk
      [] OTHER -> NoneVal

\* C35: update_library, delete_library, index_library and add_document on a
\* library that is not there, update_document, delete_document and add_chunk
\* on a document that is not there, and update_chunk and delete_chunk on a
\* chunk that is not there return None or false and leave the libraries, the
\* indexes, the chunks and the dirty flag as they were; the get operations
\* and get_chunk_count return None and 0 for what is not there.
C35_NotFoundChangesNothing ==
    /\ [][LET c == call'
              missing ==
                  \/ /\ c.op \in {"update_library", "delete_library", "index_library",
                                  "add_document"}
                     /\ c.library_id \notin DOMAIN libraries
                  \/ /\ c.op \in {"update_document", "delete_document", "add_chunk"}
                     /\ NoDocument(Store, c.library_id, c.document_id)
                  \/ /\ c.op \in {"update_chunk", "delete_chunk"}
                     /\ NoSuchChunk(Store, c.library_id, c.document_id, c.chunk_id)
          IN  missing =>
                  /\ ret'.status = "return"
                  /\ ret'.val = NotFoundValue(c.op)
                  /\ StateKept
         ]_vars
    /\ [](\A l \in LibIds, d \in DocIds, a \in ChunkIds :
              /\ l \notin DOMAIN libraries =>
                     /\ get_library(Store, l).ret = Return(NoneVal)
                     /\ get_chunk_count(Store, l).ret = Return(0)
              /\ NoDocument(Store, l, d) => get_document(Store, l, d).ret = Return(NoneVal)
              /\ NoSuchChunk(Store, l, d, a) => get_chunk(Store, l, d, a).ret = Return(NoChunk))

\* library m is held by the store as it was: the library with its documents
\* and its flag, its index, and the chunks its documents and its index reach
LibraryKept(m) ==
    /\ m \in DOMAIN libraries'
    /\ libraries'[m] = libraries[m]
    /\ m \in DOMAIN indices'
    /\ indices'[m] = indices[m]
    /\ \A a \in 1 .. Len(heap) : Held(m, a) => heap'[a] = heap[a]

C37_CreateReplaces ==
    [][(call'.op = "create_library" /\ call'.library_id \in DOMAIN libraries) =>
          LET l == call'.library_id
          IN  /\ ret'.status = "return" /\ ret'.val = l
              /\ DOMAIN libraries' = DOMAIN libraries
              /\ DOMAIN indices' = DOMAIN libraries'
              /\ libraries'[l].library_id = l
              /\ libraries'[l].documents = <<>>
              /\ ~libraries'[l].is_indexed
              /\ indices'[l].cls = index_class
              /\ \A t \in Tables(indices'[l]) : IndexSize(indices'[l], t) = 0
              /\ \A i \in 1 .. Len(libraries[l].documents) :
                     get_document(Store', l, libraries[l].documents[i].id).ret.val = NoneVal
              /\ get_chunk_count(Store', l).ret.val = 0
              /\ \A a \in 1 .. Len(heap) : Held(l, a) => heap'[a] = Freed
      ]_vars

\* C37 witness: create_library was called for a library that was indexed
\* and held a document with chunks, which are gone
C37_Witness ==
    /\ call.op = "create_library"
    /\ nextDocId > 1
    /\ Len(heap) > 0
    /\ \A a \in 1 .. Len(heap) : heap[a] = Freed
    /\ libraries[call.library_id].documents = <<>>
    /\ needs_save

\* C38: is_indexed of a library is false when create_library returns; it
\* becomes true only in an index_library call for that library or in a
\* load; while the library exists (it is neither deleted nor replaced by a
\* create_library of its id) no operation of the store sets it back to
\* false; and after a load every library of the store is indexed, also one
\* that was saved with is_indexed false.
C38_IndexedMonotone ==
    [][/\ (call'.op = "create_library" /\ ret'.status = "return") =>
              ~libraries'[call'.library_id].is_indexed
       /\ \A l \in DOMAIN libraries' :
              (/\ libraries'[l].is_indexed
               /\ ~(l \in DOMAIN libraries /\ libraries[l].is_indexed)) =>
                  \/ call'.op = "index_library" /\ call'.library_id = l
                  \/ call'.op = "load_from_disk"
       /\ \A l \in DOMAIN libraries \cap DOMAIN libraries' :
              (/\ libraries[l].is_indexed
               /\ call'.op # "load_from_disk"
               /\ ~(call'.op = "create_library" /\ call'.library_id = l)) =>
                  libraries'[l].is_indexed
       /\ call'.op = "load_from_disk" =>
              \A l \in DOMAIN libraries' : libraries'[l].is_indexed
      ]_vars

\* the save thread is in its "with self._lock"
SaverInside == save_pc \in {"check", "save_enter", "save_body", "release"}

\* C39: the save thread looks at needs_save, writes the snapshot and clears
\* needs_save in one hold of the store lock, with no request thread inside
\* a store operation; the snapshot it writes is the store as the last
\* operation that finished left it; and when needs_save is false at the end
\* of a round that called save_to_disk, the snapshot file holds the store as
\* it is, with every change made so far.
C39_SnapshotAtomic ==
    /\ [](SaverInside =>
              /\ lock.owner = Saver
              /\ \A t \in Threads : ~Inside(t))
    /\ [][/\ (disk' # disk \/ (needs_save /\ ~needs_save')) =>
                 /\ save_pc = "save_body"
                 /\ lock.owner = Saver
          /\ disk'.file # disk.file =>
                 /\ View(Store) = stable
                 /\ disk'.file = Pickled(Store)
                 /\ Store' = [Store EXCEPT !.needs_save = FALSE]
          /\ (save_pc = "save_body" /\ save_pc' = "release" /\ ~needs_save') =>
                 disk'.file = Pickled(Store')
         ]_vars

\* the call op that returned or raised r did what it was asked to
Success(op, r) ==
    /\ r.status = "return"
    /\ CASE op \in {"update_library", "add_document", "update_document"} -> r.val # NoneVal
         [] op \in {"delete_library", "index_library", "delete_document", "delete_chunk"} -> r.val
         [] op \in {"add_chunk", "update_chunk"} -> r.val # NoChunk
         [] OTHER -> TRUE

\* the last call is a mutating operation of the store that has returned
\* with success, when save_interval can still pass on the clock
Mutated ==
    /\ call.op \in Mutating
    /\ Success(call.op, frame["t1"].result)
    /\ last_save + save_interval <= MaxTime

\* the save thread has written a snapshot, which holds the store as it is
Persisted ==
    /\ call.op = "save_worker"
    /\ call.attempt = "ok"
    /\ disk.file = Pickled(Store)

\* C40: after every mutating operation of the store that returned with
\* success, when the save thread keeps running its rounds, time passes
\* save_interval and save_to_disk succeeds, the save thread at some time
\* later writes a snapshot, which holds what the operation did.
C40_EventuallyPersisted == Mutated ~> Persisted

====
